---- MODULE Spec2Model ----
(***************************************************************************)
(* canvas-ledger: the reconciliation engine of cl.ledger.ingest            *)
(* (ingest_catalog, ingest_offering and the six _upsert_* reconcilers)     *)
(* over the committed SQLite database and the SQLAlchemy session of the    *)
(* running invocation.                                                     *)
(*                                                                         *)
(* Values.  Every Python text, float and datetime value is written as its  *)
(* str() form, a TLA+ string; Python's None is the reserved string None.   *)
(* Nullable internal references (term_id, section_id) are naturals with    *)
(* NoneId for None, since row ids start at 1.  A table is the sequence of  *)
(* its rows in insertion order; a row's id is its position (SQLite rowid,  *)
(* ingestion never deletes).                                               *)
(***************************************************************************)
EXTENDS Integers, Sequences, FiniteSets, TLC

VARIABLES
    db,       \* the committed database: what a new connection reads
    sess,     \* the tables as the running invocation's Session sees them
    pc,       \* position of the invocation: "idle" or a loop of a run
    loc,      \* local variables of the running invocation
    clock,    \* _utcnow(): the next timestamp
    result,   \* what the last invocation returned or raised
    lastOp,   \* the reconciliations of the last step, in order
    hist      \* history: the database before the run, the client's outputs

vars == <<db, sess, pc, loc, clock, result, lastOp, hist>>

\* ---------------------------------------------------------------- bounds

MaxRuns == 2
MaxCourses == 2
MaxEnrollments == 2
MaxDeclared == 2

\* ---------------------------------------------------------------- values

None == "~None"
NoneId == 0

\* str(v) if v is not None else None, for values held as their str() form
StrOrNone(v) == IF v = None THEN None ELSE v

\* the same for an internal reference
StrIdOrNone(v) == IF v = NoneId THEN None ELSE ToString(v)

\* f"{v}": an f-string formats None as the text 'None'
Fmt(v) == IF v = None THEN "None" ELSE v

FmtId(v) == IF v = NoneId THEN "None" ELSE ToString(v)

\* A SQLite DATETIME column keeps no UTC offset: an aware datetime written by
\* a commit is read back naive by the next session.
StoreDateTime(v) ==
    CASE v = "2025-01-01 00:00:00+00:00" -> "2025-01-01 00:00:00"
      [] v = "2025-06-01 00:00:00+00:00" -> "2025-06-01 00:00:00"
      [] OTHER -> v

SeqToSet(s) == {s[i] : i \in 1..Len(s)}

\* select(...).where(<column> == v) ... .first(): the first row whose
\* external identifier is v, or None (0) when there is none
FirstWhere(rows, col, v) ==
    LET hits == {i \in 1..Len(rows) : rows[i][col] = v}
    IN  IF hits = {} THEN 0 ELSE CHOOSE i \in hits : \A j \in hits : i <= j

EmptyTables ==
    [term |-> <<>>, offering |-> <<>>, user_enrollment |-> <<>>,
     section |-> <<>>, person |-> <<>>, enrollment |-> <<>>,
     change_log |-> <<>>, ingest_run |-> <<>>,
     lead_instructor_annotation |-> <<>>, involvement_annotation |-> <<>>,
     course_alias |-> <<>>, course_alias_offering |-> <<>>]

\* ------------------------------------------------------------ change log

\* the fields holding an internal reference, not text
RefFields == {"term_id", "section_id"}

\* str(v) applied to every value, None included
PyStrOfAny(field_name, v) ==
    IF field_name \in RefFields THEN FmtId(v) ELSE Fmt(v)

\* "str(v) if v is not None else None"
PyStr(field_name, v) ==
    IF field_name \in RefFields THEN StrIdOrNone(v) ELSE StrOrNone(v)

PyFmt(field_name, v) ==
    IF field_name \in RefFields THEN FmtId(v) ELSE Fmt(v)

\* the rows of a change log that are not about the given entity
RECURSIVE OfOtherEntities(_, _, _)
OfOtherEntities(rows, entity_type, entity_canvas_id) ==
    IF rows = <<>> THEN <<>>
    ELSE IF Head(rows).entity_type = entity_type
            /\ Head(rows).entity_canvas_id = entity_canvas_id
    THEN OfOtherEntities(Tail(rows), entity_type, entity_canvas_id)
    ELSE <<Head(rows)>> \o OfOtherEntities(Tail(rows), entity_type, entity_canvas_id)

\* a log that keeps the latest change of an entity only
_record_change_latest(T, entity_type, entity_canvas_id, field_name, old_value, new_value, ingest_run_id, observed_at) ==
    [T EXCEPT !.change_log =
        Append(OfOtherEntities(@, entity_type, entity_canvas_id),
        [id |-> Len(@) + 1,
         entity_type |-> entity_type,
         entity_canvas_id |-> entity_canvas_id,
         field_name |-> field_name,
         old_value |-> PyStr(field_name, old_value),
         new_value |-> PyStr(field_name, new_value),
         ingest_run_id |-> ingest_run_id,
         observed_at |-> observed_at])]

\* _record_change: session.add(ChangeLog(...)), one row appended
_record_change(T, entity_type, entity_canvas_id, field_name, old_value, new_value, ingest_run_id, observed_at) ==
    [T EXCEPT !.change_log = Append(@,
        [id |-> Len(@) + 1,
         entity_type |-> entity_type,
         entity_canvas_id |-> entity_canvas_id,
         field_name |-> field_name,
         old_value |-> PyStr(field_name, old_value),
         new_value |-> PyStr(field_name, new_value),
         ingest_run_id |-> ingest_run_id,
         observed_at |-> observed_at])]

\* ------------------------------------------------------------ reconcilers

\* The tracked fields of each kind, in the order the code compares them.
TermTracked == <<"name", "start_date", "end_date">>
OfferingTracked == <<"name", "code", "workflow_state", "term_id">>
UserEnrollmentTracked == <<"role", "enrollment_state">>
SectionTracked == <<"name", "sis_section_id">>
PersonTracked == <<"name", "sortable_name", "sis_user_id", "login_id">>
\* fault injection: the enrollment reconciler without its final_score block
EnrollmentTrackedNoFinalScore ==
    <<"role", "enrollment_state", "current_grade", "current_score", "final_grade",
      "section_id">>

\* fault injection: the enrollment reconciler without its section block
EnrollmentTrackedNoSection ==
    <<"role", "enrollment_state", "current_grade", "current_score",
      "final_grade", "final_score">>

EnrollmentTracked ==
    <<"role", "enrollment_state", "current_grade", "current_score",
      "final_grade", "final_score", "section_id">>

\* The fields whose change the code also appends to its drift_list.
OfferingDescribed == {"name", "code", "workflow_state", "term_id"}
UserEnrollmentDescribed == {"role", "enrollment_state"}
SectionDescribed == {"name", "sis_section_id"}
\* fault injection: every tracked field of a person described
PersonDescribedAll == {"name", "sortable_name", "sis_user_id", "login_id"}

PersonDescribed == {"name"}
EnrollmentDescribed == {"role", "enrollment_state"}

\* One entry of a drift_list: the f-string's parts.
DriftText(entity_type, cid, f, old, new) ==
    <<entity_type, ToString(cid), f, PyFmt(f, old), PyFmt(f, new)>>

\* One "if existing.f != observed.f:" block.
CheckField(acc, entity_type, cid, f, obs, described, run_id, now) ==
    IF acc.row[f] # obs[f]
    THEN [T |-> _record_change(acc.T, entity_type, cid, f, acc.row[f], obs[f], run_id, now),
          row |-> [acc.row EXCEPT ![f] = obs[f]],
          drift_list |-> IF f \in described
                         THEN Append(acc.drift_list, DriftText(entity_type, cid, f, acc.row[f], obs[f]))
                         ELSE acc.drift_list,
          change_count |-> acc.change_count + 1,
          drift |-> TRUE]
    ELSE acc

RECURSIVE CheckFields(_, _, _, _, _, _, _, _, _)
CheckFields(acc, entity_type, cid, fields, k, obs, described, run_id, now) ==
    IF k > Len(fields) THEN acc
    ELSE CheckFields(CheckField(acc, entity_type, cid, fields[k], obs, described, run_id, now),
                     entity_type, cid, fields, k + 1, obs, described, run_id, now)

\* fault injection: the branch for a stored record setting observed_at
\* whether or not a field differed
UpsertExistingObserving(T, table, i, entity_type, cid, fields, obs, described, run_id, now) ==
    LET acc0 == [T |-> T, row |-> T[table][i], drift_list |-> <<>>,
                 change_count |-> 0, drift |-> FALSE]
        acc == CheckFields(acc0, entity_type, cid, fields, 1, obs, described, run_id, now)
        row == [acc.row EXCEPT !.last_seen_at = now, !.observed_at = now]
    IN  [T |-> [acc.T EXCEPT ![table][i] = row],
         id |-> i,
         status |-> IF acc.drift THEN "updated" ELSE "unchanged",
         drift_list |-> acc.drift_list,
         change_count |-> IF acc.drift THEN acc.change_count ELSE 0]

\* fault injection: the branch for a stored record leaving last_seen_at
\* alone when a field differed
UpsertExistingUnseen(T, table, i, entity_type, cid, fields, obs, described, run_id, now) ==
    LET acc0 == [T |-> T, row |-> T[table][i], drift_list |-> <<>>,
                 change_count |-> 0, drift |-> FALSE]
        acc == CheckFields(acc0, entity_type, cid, fields, 1, obs, described, run_id, now)
        row == IF acc.drift THEN [acc.row EXCEPT !.observed_at = now]
                            ELSE [acc.row EXCEPT !.last_seen_at = now]
    IN  [T |-> [acc.T EXCEPT ![table][i] = row],
         id |-> i,
         status |-> IF acc.drift THEN "updated" ELSE "unchanged",
         drift_list |-> acc.drift_list,
         change_count |-> IF acc.drift THEN acc.change_count ELSE 0]

\* The branch of an _upsert_* for a stored record: the field blocks, then
\* last_seen_at, then observed_at and the status.
UpsertExisting(T, table, i, entity_type, cid, fields, obs, described, run_id, now) ==
    LET acc0 == [T |-> T, row |-> T[table][i], drift_list |-> <<>>,
                 change_count |-> 0, drift |-> FALSE]
        acc == CheckFields(acc0, entity_type, cid, fields, 1, obs, described, run_id, now)
        seen == [acc.row EXCEPT !.last_seen_at = now]
        row == IF acc.drift THEN [seen EXCEPT !.observed_at = now] ELSE seen
    IN  [T |-> [acc.T EXCEPT ![table][i] = row],
         id |-> i,
         status |-> IF acc.drift THEN "updated" ELSE "unchanged",
         drift_list |-> acc.drift_list,
         change_count |-> IF acc.drift THEN acc.change_count ELSE 0]

\* fault injection: the creation of a record logged as a change
UpsertNewLogged(T, table, row) ==
    [T |-> [T EXCEPT ![table] = Append(@, row),
                     !.change_log = Append(@,
                        [id |-> Len(@) + 1, entity_type |-> table,
                         entity_canvas_id |-> row.id, field_name |-> "id",
                         old_value |-> None, new_value |-> ToString(row.id),
                         ingest_run_id |-> 0, observed_at |-> row.observed_at])],
     id |-> row.id,
     status |-> "new",
     drift_list |-> <<>>,
     change_count |-> 0]

\* The branch for no stored record: session.add(row), status 'new'.
UpsertNew(T, table, row) ==
    [T |-> [T EXCEPT ![table] = Append(@, row)],
     id |-> row.id,
     status |-> "new",
     drift_list |-> <<>>,
     change_count |-> 0]

_upsert_term(T, term_data, ingest_run_id, now) ==
    LET existing == FirstWhere(T.term, "canvas_term_id", term_data.canvas_term_id)
    IN  IF existing = 0
        THEN UpsertNew(T, "term",
                [id |-> Len(T.term) + 1,
                 canvas_term_id |-> term_data.canvas_term_id,
                 name |-> term_data.name,
                 start_date |-> term_data.start_date,
                 end_date |-> term_data.end_date,
                 observed_at |-> now, last_seen_at |-> now])
        ELSE UpsertExisting(T, "term", existing, "term", term_data.canvas_term_id,
                            TermTracked, term_data, {}, ingest_run_id, now)

_upsert_offering(T, course_data, term_id, ingest_run_id, now) ==
    LET existing == FirstWhere(T.offering, "canvas_course_id", course_data.canvas_course_id)
        obs == [name |-> course_data.name, code |-> course_data.code,
                workflow_state |-> course_data.workflow_state, term_id |-> term_id]
    IN  IF existing = 0
        THEN UpsertNew(T, "offering",
                [id |-> Len(T.offering) + 1,
                 canvas_course_id |-> course_data.canvas_course_id,
                 name |-> course_data.name,
                 code |-> course_data.code,
                 term_id |-> term_id,
                 workflow_state |-> course_data.workflow_state,
                 observed_at |-> now, last_seen_at |-> now])
        ELSE UpsertExisting(T, "offering", existing, "offering", course_data.canvas_course_id,
                            OfferingTracked, obs, OfferingDescribed, ingest_run_id, now)

_upsert_user_enrollment(T, enrollment_id, offering_id, role, enrollment_state, ingest_run_id, now) ==
    LET existing == FirstWhere(T.user_enrollment, "canvas_enrollment_id", enrollment_id)
        obs == [role |-> role, enrollment_state |-> enrollment_state]
    IN  IF existing = 0
        THEN UpsertNew(T, "user_enrollment",
                [id |-> Len(T.user_enrollment) + 1,
                 canvas_enrollment_id |-> enrollment_id,
                 offering_id |-> offering_id,
                 role |-> role,
                 enrollment_state |-> enrollment_state,
                 observed_at |-> now, last_seen_at |-> now])
        ELSE UpsertExisting(T, "user_enrollment", existing, "user_enrollment", enrollment_id,
                            UserEnrollmentTracked, obs, UserEnrollmentDescribed, ingest_run_id, now)

\* fault injection: a section reconciler that moves a stored section to the
\* offering it is observed in
_upsert_section_moving(T, section_data, offering_id, ingest_run_id, now) ==
    LET existing == FirstWhere(T.section, "canvas_section_id", section_data.canvas_section_id)
        r == UpsertExisting(T, "section", existing, "section", section_data.canvas_section_id,
                            SectionTracked, section_data, SectionDescribed, ingest_run_id, now)
    IN  IF existing = 0
        THEN UpsertNew(T, "section",
                [id |-> Len(T.section) + 1,
                 canvas_section_id |-> section_data.canvas_section_id,
                 offering_id |-> offering_id,
                 name |-> section_data.name,
                 sis_section_id |-> section_data.sis_section_id,
                 observed_at |-> now, last_seen_at |-> now])
        ELSE [r EXCEPT !.T.section[existing].offering_id = offering_id]

_upsert_section(T, section_data, offering_id, ingest_run_id, now) ==
    LET existing == FirstWhere(T.section, "canvas_section_id", section_data.canvas_section_id)
    IN  IF existing = 0
        THEN UpsertNew(T, "section",
                [id |-> Len(T.section) + 1,
                 canvas_section_id |-> section_data.canvas_section_id,
                 offering_id |-> offering_id,
                 name |-> section_data.name,
                 sis_section_id |-> section_data.sis_section_id,
                 observed_at |-> now, last_seen_at |-> now])
        ELSE UpsertExisting(T, "section", existing, "section", section_data.canvas_section_id,
                            SectionTracked, section_data, SectionDescribed, ingest_run_id, now)

\* fault injection: a person reconciler that skips the lookup and inserts
_upsert_person_insert_only(T, canvas_user_id, name, sortable_name, sis_user_id, login_id, ingest_run_id, now) ==
    UpsertNew(T, "person",
        [id |-> Len(T.person) + 1,
         canvas_user_id |-> canvas_user_id,
         name |-> name,
         sortable_name |-> sortable_name,
         sis_user_id |-> sis_user_id,
         login_id |-> login_id,
         observed_at |-> now, last_seen_at |-> now])

_upsert_person(T, canvas_user_id, name, sortable_name, sis_user_id, login_id, ingest_run_id, now) ==
    LET existing == FirstWhere(T.person, "canvas_user_id", canvas_user_id)
        obs == [name |-> name, sortable_name |-> sortable_name,
                sis_user_id |-> sis_user_id, login_id |-> login_id]
    IN  IF existing = 0
        THEN UpsertNew(T, "person",
                [id |-> Len(T.person) + 1,
                 canvas_user_id |-> canvas_user_id,
                 name |-> name,
                 sortable_name |-> sortable_name,
                 sis_user_id |-> sis_user_id,
                 login_id |-> login_id,
                 observed_at |-> now, last_seen_at |-> now])
        ELSE UpsertExisting(T, "person", existing, "person", canvas_user_id,
                            PersonTracked, obs, PersonDescribed, ingest_run_id, now)

_upsert_enrollment(T, enrollment_data, offering_id, section_id, person_id, ingest_run_id, now) ==
    LET existing == FirstWhere(T.enrollment, "canvas_enrollment_id", enrollment_data.canvas_enrollment_id)
        obs == [role |-> enrollment_data.role,
                enrollment_state |-> enrollment_data.enrollment_state,
                current_grade |-> enrollment_data.current_grade,
                current_score |-> enrollment_data.current_score,
                final_grade |-> enrollment_data.final_grade,
                final_score |-> enrollment_data.final_score,
                section_id |-> section_id]
    IN  IF existing = 0
        THEN UpsertNew(T, "enrollment",
                [id |-> Len(T.enrollment) + 1,
                 canvas_enrollment_id |-> enrollment_data.canvas_enrollment_id,
                 offering_id |-> offering_id,
                 section_id |-> section_id,
                 person_id |-> person_id,
                 role |-> enrollment_data.role,
                 enrollment_state |-> enrollment_data.enrollment_state,
                 current_grade |-> enrollment_data.current_grade,
                 current_score |-> enrollment_data.current_score,
                 final_grade |-> enrollment_data.final_grade,
                 final_score |-> enrollment_data.final_score,
                 observed_at |-> now, last_seen_at |-> now])
        ELSE UpsertExisting(T, "enrollment", existing, "enrollment", enrollment_data.canvas_enrollment_id,
                            EnrollmentTracked, obs, EnrollmentDescribed, ingest_run_id, now)

\* ------------------------------------------------------- store and session

\* session.commit(): the session's rows become the committed database; the
\* DATETIME columns of term keep no UTC offset.
StoreTerm(row) ==
    [row EXCEPT !.start_date = StoreDateTime(@), !.end_date = StoreDateTime(@)]

\* a commit of the observed tables that leaves no declared row behind
CommitObservedOnly(T) ==
    [T EXCEPT !.term = [i \in 1..Len(@) |-> StoreTerm(@[i])],
              !.lead_instructor_annotation = <<>>, !.involvement_annotation = <<>>,
              !.course_alias = <<>>, !.course_alias_offering = <<>>]

Commit(T) ==
    [T EXCEPT !.term = [i \in 1..Len(@) |-> StoreTerm(@[i])]]

\* IngestRun(scope=..., scope_detail=...): status running, counters 0
NewIngestRun(id, scope, scope_detail, now) ==
    [id |-> id, started_at |-> now, completed_at |-> 0, scope |-> scope,
     scope_detail |-> scope_detail, status |-> "running", error_message |-> None,
     new_count |-> 0, updated_count |-> 0, unchanged_count |-> 0, drift_count |-> 0]

\* IngestRun.mark_completed
mark_completed(run, new_count, updated_count, unchanged_count, now) ==
    [run EXCEPT !.completed_at = now, !.status = "completed",
                !.new_count = new_count, !.updated_count = updated_count,
                !.unchanged_count = unchanged_count]

\* the drift_count keyword of mark_completed
SetDriftCount(run, drift_count) ==
    [run EXCEPT !.drift_count = drift_count]

\* fault injection: mark_failed keeping the message and not the status
mark_failed_message_only(run, error_message, now) ==
    [run EXCEPT !.completed_at = now, !.error_message = error_message]

\* IngestRun.mark_failed
mark_failed(run, error_message, now) ==
    [run EXCEPT !.completed_at = now, !.status = "failed",
                !.error_message = error_message]

\* ------------------------------------------------------------ invocation

NoLoc ==
    [scope |-> "none", run_id |-> 0, canvas_course_id |-> 0, offering_id |-> 0,
     courses |-> <<>>, sections |-> <<>>, enrollments |-> <<>>, idx |-> 0,
     terms_seen |-> <<>>, section_map |-> <<>>,
     new_count |-> 0, updated_count |-> 0, unchanged_count |-> 0,
     drift_count |-> 0, all_drift |-> <<>>, calls |-> <<>>, caught |-> <<>>]

NoResult ==
    [kind |-> "none", exc |-> None, run_id |-> 0, new_count |-> 0,
     updated_count |-> 0, unchanged_count |-> 0, drift_detected |-> <<>>,
     error |-> None]

\* IngestResult(...) returned to the caller
IngestResult(run_id, new_count, updated_count, unchanged_count, drift_detected, error) ==
    [kind |-> "return", exc |-> None, run_id |-> run_id, new_count |-> new_count,
     updated_count |-> updated_count, unchanged_count |-> unchanged_count,
     drift_detected |-> drift_detected, error |-> error]

\* an exception leaving the function
Raised(exc) == [NoResult EXCEPT !.kind = "raise", !.exc = exc]

\* a dict as a sequence of <<key, value>> pairs, the last assignment last
DictHas(d, k) == \E i \in 1..Len(d) : d[i][1] = k

DictGet(d, k) ==
    LET hits == {i \in 1..Len(d) : d[i][1] = k}
    IN  IF hits = {} THEN NoneId
        ELSE d[CHOOSE i \in hits : \A j \in hits : j <= i][2]

DictSet(d, k, v) == Append(d, <<k, v>>)

\* "if status == 'new': ... elif status == 'updated': ... else: ..." with
\* the else branch present (count_unchanged) or absent
Count(l, status, count_unchanged) ==
    CASE status = "new" -> [l EXCEPT !.new_count = @ + 1]
      [] status = "updated" -> [l EXCEPT !.updated_count = @ + 1]
      [] OTHER -> IF count_unchanged THEN [l EXCEPT !.unchanged_count = @ + 1] ELSE l

\* what a step records of one reconciliation: the record found and the one
\* left, and the numbers of rows the session held (flushed) before it
Op(entity_type, canvas_id, Tbefore, table, col, obs, r) ==
    LET i == FirstWhere(Tbefore[table], col, canvas_id)
    IN  [entity_type |-> entity_type, canvas_id |-> canvas_id,
         before |-> IF i = 0 THEN <<>> ELSE <<Tbefore[table][i]>>,
         held |-> [term |-> Len(Tbefore.term), offering |-> Len(Tbefore.offering),
                   section |-> Len(Tbefore.section), person |-> Len(Tbefore.person)],
         after |-> r.T[table][r.id],
         obs |-> obs,
         status |-> r.status,
         change_count |-> r.change_count,
         logged |-> SubSeq(r.T.change_log, Len(Tbefore.change_log) + 1, Len(r.T.change_log))]

\* ------------------------------------------------------ ingest_catalog

\* A machine state st is [sess, loc, clock, ops]: the session's tables, the
\* locals, the next timestamp and the reconciliations of the step so far.

\* fault injection: the term's changes left out of the run's drift_count
CatalogTermUncounted(st, c) ==
    IF c.term_id = NoneId
    THEN [st |-> st, term_id |-> NoneId]
    ELSE IF DictHas(st.loc.terms_seen, c.term_id)
    THEN [st |-> st, term_id |-> DictGet(st.loc.terms_seen, c.term_id)]
    ELSE IF c.term = <<>>
    THEN [st |-> [st EXCEPT !.loc.calls = Append(@, "get_term_from_course")],
          term_id |-> NoneId]
    ELSE LET term_data == c.term[1]
             r == _upsert_term(st.sess, term_data, st.loc.run_id, st.clock)
             l1 == [st.loc EXCEPT !.terms_seen = DictSet(@, c.term_id, r.id),
                                  !.calls = Append(@, "get_term_from_course")]
         IN  [st |-> [sess |-> r.T,
                      loc |-> Count(l1, r.status, FALSE),
                      clock |-> st.clock + 1,
                      ops |-> Append(st.ops, Op("term", term_data.canvas_term_id, st.sess,
                                                "term", "canvas_term_id", term_data, r))],
              term_id |-> r.id]

\* fault injection: the term reconciled for every course, terms_seen unread
CatalogTermEveryCourse(st, c) ==
    IF c.term_id = NoneId
    THEN [st |-> st, term_id |-> NoneId]
    ELSE IF c.term = <<>>
    THEN [st |-> [st EXCEPT !.loc.calls = Append(@, "get_term_from_course")],
          term_id |-> NoneId]
    ELSE LET term_data == c.term[1]
             r == _upsert_term(st.sess, term_data, st.loc.run_id, st.clock)
             l1 == [st.loc EXCEPT !.terms_seen = DictSet(@, c.term_id, r.id),
                                  !.drift_count = @ + r.change_count,
                                  !.calls = Append(@, "get_term_from_course")]
         IN  [st |-> [sess |-> r.T,
                      loc |-> Count(l1, r.status, FALSE),
                      clock |-> st.clock + 1,
                      ops |-> Append(st.ops, Op("term", term_data.canvas_term_id, st.sess,
                                                "term", "canvas_term_id", term_data, r))],
              term_id |-> r.id]

\* "# Handle term": the term of one observed course.  c.term is what
\* client.get_term_from_course answers for the course, <<>> for None.
CatalogTerm(st, c) ==
    IF c.term_id = NoneId
    THEN [st |-> st, term_id |-> NoneId]
    ELSE IF DictHas(st.loc.terms_seen, c.term_id)
    THEN [st |-> st, term_id |-> DictGet(st.loc.terms_seen, c.term_id)]
    ELSE IF c.term = <<>>
    THEN [st |-> [st EXCEPT !.loc.calls = Append(@, "get_term_from_course")],
          term_id |-> NoneId]
    ELSE LET term_data == c.term[1]
             r == _upsert_term(st.sess, term_data, st.loc.run_id, st.clock)
             l1 == [st.loc EXCEPT !.terms_seen = DictSet(@, c.term_id, r.id),
                                  !.drift_count = @ + r.change_count,
                                  !.calls = Append(@, "get_term_from_course")]
         IN  [st |-> [sess |-> r.T,
                      loc |-> Count(l1, r.status, FALSE),
                      clock |-> st.clock + 1,
                      ops |-> Append(st.ops, Op("term", term_data.canvas_term_id, st.sess,
                                                "term", "canvas_term_id", term_data, r))],
              term_id |-> r.id]

\* "# Upsert offering"
CatalogOffering(st, c, term_id) ==
    LET r == _upsert_offering(st.sess, c, term_id, st.loc.run_id, st.clock)
        l1 == [st.loc EXCEPT !.all_drift = @ \o r.drift_list,
                             !.drift_count = @ + r.change_count]
    IN  [st |-> [sess |-> r.T,
                 loc |-> Count(l1, r.status, TRUE),
                 clock |-> st.clock + 1,
                 ops |-> Append(st.ops, Op("offering", c.canvas_course_id, st.sess,
                                           "offering", "canvas_course_id",
                                           [name |-> c.name, code |-> c.code,
                                            workflow_state |-> c.workflow_state,
                                            term_id |-> term_id], r))],
         offering_id |-> r.id]

\* "# Upsert user enrollments for this course", from the k-th on
RECURSIVE CatalogUserEnrollments(_, _, _, _)
CatalogUserEnrollments(st, enrollments, k, offering_id) ==
    IF k > Len(enrollments) THEN st
    ELSE LET e == enrollments[k]
             r == _upsert_user_enrollment(st.sess, e.canvas_enrollment_id, offering_id,
                                          e.role, e.enrollment_state, st.loc.run_id, st.clock)
             l1 == [st.loc EXCEPT !.all_drift = @ \o r.drift_list,
                                  !.drift_count = @ + r.change_count]
             st1 == [sess |-> r.T,
                     loc |-> Count(l1, r.status, TRUE),
                     clock |-> st.clock + 1,
                     ops |-> Append(st.ops, Op("user_enrollment", e.canvas_enrollment_id, st.sess,
                                               "user_enrollment", "canvas_enrollment_id",
                                               [role |-> e.role,
                                                enrollment_state |-> e.enrollment_state], r))]
         IN  CatalogUserEnrollments(st1, enrollments, k + 1, offering_id)

\* the body of "for course_data in courses:" for one course
CatalogCourseBody(st, c) ==
    LET t == CatalogTerm(st, c)
        o == CatalogOffering(t.st, c, t.term_id)
    IN  CatalogUserEnrollments(o.st, c.enrollments, 1, o.offering_id)

\* ------------------------------------------------- the client's outputs

SeqsUpTo(S, n) == UNION {[1..k -> S] : k \in 0..n}

TermFall ==
    [canvas_term_id |-> 1, name |-> "Fall 2025",
     start_date |-> "2025-01-01 00:00:00+00:00",
     end_date |-> "2025-06-01 00:00:00+00:00"]

TermUndated ==
    [canvas_term_id |-> 2, name |-> "Default Term",
     start_date |-> None, end_date |-> None]

\* CourseData as list_my_courses returns it, with the TermData that
\* get_term_from_course answers for the course (term; <<>> for None).
CourseIntro ==
    [canvas_course_id |-> 101, name |-> "Intro", code |-> None,
     workflow_state |-> "available", term_id |-> 1, term |-> <<TermFall>>,
     enrollments |-> <<[canvas_enrollment_id |-> 1001, role |-> "teacher",
                        enrollment_state |-> "active"]>>]

CourseIntroChanged ==
    [canvas_course_id |-> 101, name |-> "Intro II", code |-> "C101",
     workflow_state |-> "completed", term_id |-> NoneId, term |-> <<>>,
     enrollments |-> <<[canvas_enrollment_id |-> 1001, role |-> "ta",
                        enrollment_state |-> "completed"]>>]

CourseLab ==
    [canvas_course_id |-> 102, name |-> "Lab", code |-> "LAB",
     workflow_state |-> "available", term_id |-> 2, term |-> <<TermUndated>>,
     enrollments |-> <<>>]

CourseSnapshots == {CourseIntro, CourseIntroChanged, CourseLab}

CourseLists == SeqsUpTo(CourseSnapshots, MaxCourses)

\* a second course of the term of CourseIntro
CourseSeminar ==
    [canvas_course_id |-> 103, name |-> "Seminar", code |-> "SEM",
     workflow_state |-> "available", term_id |-> 1, term |-> <<TermFall>>,
     enrollments |-> <<>>]

\* what list_my_courses answers when courses share a term
SharedTermLists == SeqsUpTo({CourseIntro, CourseSeminar, CourseLab}, MaxCourses)

\* what list_my_courses answers between deep ingestions: courses come and go
FewCourseLists == {<<CourseIntro, CourseLab>>, <<CourseLab>>}

NoInput == [courses |-> <<>>, sections |-> <<>>, enrollments |-> <<>>]

SectionA ==
    [canvas_section_id |-> 100, name |-> "Section A", sis_section_id |-> "SEC-A"]

\* what list_sections answers: no section, or the one section
SectionLists == {<<>>, <<SectionA>>}

\* CourseEnrollmentData as list_enrollments returns it
EnrollStudent ==
    [canvas_enrollment_id |-> 1000, course_section_id |-> 100, user_id |-> 5001,
     role |-> "StudentEnrollment", enrollment_state |-> "active",
     user_name |-> "Student One", user_sortable_name |-> "One, Student",
     user_sis_id |-> "S001", user_login_id |-> "student1@example.com",
     current_grade |-> "B", current_score |-> "85.0",
     final_grade |-> None, final_score |-> None]

EnrollStudentChanged ==
    [canvas_enrollment_id |-> 1000, course_section_id |-> NoneId, user_id |-> 5001,
     role |-> "TaEnrollment", enrollment_state |-> "completed",
     user_name |-> "Student 1", user_sortable_name |-> None,
     user_sis_id |-> None, user_login_id |-> "s1@example.com",
     current_grade |-> "A", current_score |-> "95.0",
     final_grade |-> "A", final_score |-> "95.0"]

EnrollmentSnapshots == {EnrollStudent, EnrollStudentChanged}

EnrollmentLists == SeqsUpTo(EnrollmentSnapshots, MaxEnrollments)

\* the course ids ingest_offering is asked for: the seeded one, an unknown one
SeededCourseId == 12345
UnknownCourseId == 99999
OfferingRequests == {SeededCourseId, UnknownCourseId}

\* the ledger of the deep-ingestion tests: one term and one offering
SeededTables ==
    [EmptyTables EXCEPT
        !.term = <<[id |-> 1, canvas_term_id |-> 1001, name |-> "Fall 2025",
                    start_date |-> None, end_date |-> None,
                    observed_at |-> 1, last_seen_at |-> 1]>>,
        !.offering = <<[id |-> 1, canvas_course_id |-> SeededCourseId,
                        name |-> "Test Course", code |-> "TEST101", term_id |-> 1,
                        workflow_state |-> "available",
                        observed_at |-> 1, last_seen_at |-> 1]>>]

\* ---------------------------------------------------- ingest_catalog steps

\* history kept at the start of an invocation
Remember(scope, input) ==
    [scope |-> scope, dbBefore |-> db, input |-> input,
     prevScope |-> hist.scope, prevInput |-> hist.input,
     prevCompleted |-> (result.kind = "return" /\ result.error = None),
     repeat |-> hist.repeat, declared |-> hist.declared]

\* the command can be invoked: none is running, and it is the first
\* invocation or the history is one of repeated invocations
Invocable ==
    /\ pc = "idle"
    /\ hist.repeat \/ hist.scope = "none"

\* session.add(run); session.commit(); courses = client.list_my_courses()
CatalogStartWith(lists) ==
    /\ Invocable
    /\ Len(db.ingest_run) < MaxRuns
    /\ \E courses \in lists :
        LET run_id == Len(db.ingest_run) + 1
            run == NewIngestRun(run_id, "catalog", None, clock)
            T == Commit([db EXCEPT !.ingest_run = Append(@, run)])
        IN  /\ db' = T
            /\ sess' = T
            /\ loc' = [NoLoc EXCEPT !.scope = "catalog", !.run_id = run_id,
                                    !.courses = courses, !.idx = 1,
                                    !.calls = <<"list_my_courses">>]
            /\ hist' = Remember("catalog", [NoInput EXCEPT !.courses = courses])
    /\ pc' = "cat_loop"
    /\ clock' = clock + 1
    /\ result' = NoResult
    /\ lastOp' = <<>>

CatalogStart == CatalogStartWith(CourseLists)

\* ... list_my_courses answering courses that share a term
CatalogStartShared == CatalogStartWith(SharedTermLists)

\* ... list_my_courses answering one of the few course lists
CatalogStartFew == CatalogStartWith(FewCourseLists)

\* the catalog lists one course, once or a second time with other values
CatalogStartOne == CatalogStartWith({<<CourseIntro>>, <<CourseIntro, CourseIntroChanged>>})

\* fault injection: a pass of the course loop that commits what it flushed
CatalogCourseCommitting ==
    /\ pc = "cat_loop"
    /\ loc.idx <= Len(loc.courses)
    /\ LET st == CatalogCourseBody([sess |-> sess, loc |-> loc, clock |-> clock, ops |-> <<>>],
                                   loc.courses[loc.idx])
       IN  /\ sess' = Commit(st.sess)
           /\ db' = Commit(st.sess)
           /\ loc' = [st.loc EXCEPT !.idx = @ + 1]
           /\ clock' = st.clock
           /\ lastOp' = st.ops
    /\ UNCHANGED <<pc, result, hist>>

\* one pass of "for course_data in courses:"
CatalogCourse ==
    /\ pc = "cat_loop"
    /\ loc.idx <= Len(loc.courses)
    /\ LET st == CatalogCourseBody([sess |-> sess, loc |-> loc, clock |-> clock, ops |-> <<>>],
                                   loc.courses[loc.idx])
       IN  /\ sess' = st.sess
           /\ loc' = [st.loc EXCEPT !.idx = @ + 1]
           /\ clock' = st.clock
           /\ lastOp' = st.ops
    /\ UNCHANGED <<db, pc, result, hist>>

\* the rows of a table that a run has seen
SeenSince(rows, started_at) ==
    LET Seen(row) == row.last_seen_at >= started_at
    IN  SelectSeq(rows, Seen)

\* fault injection: a run that ends by deleting what its snapshot lacked
FinishRunPruning ==
    LET run == SetDriftCount(
                   mark_completed(sess.ingest_run[loc.run_id], loc.new_count,
                                  loc.updated_count, loc.unchanged_count, clock),
                   loc.drift_count)
        T == Commit([sess EXCEPT
                        !.ingest_run[loc.run_id] = run,
                        !.term = SeenSince(@, run.started_at),
                        !.offering = SeenSince(@, run.started_at),
                        !.user_enrollment = SeenSince(@, run.started_at),
                        !.section = SeenSince(@, run.started_at),
                        !.person = SeenSince(@, run.started_at),
                        !.enrollment = SeenSince(@, run.started_at)])
    IN  /\ db' = T
        /\ sess' = T
        /\ result' = IngestResult(loc.run_id, loc.new_count, loc.updated_count,
                                  loc.unchanged_count, loc.all_drift, None)
        /\ pc' = "idle"
        /\ loc' = loc
        /\ clock' = clock + 1
        /\ lastOp' = <<>>
        /\ UNCHANGED hist

\* run.mark_completed(...); session.commit(); return IngestResult(...)
FinishRun ==
    LET run == SetDriftCount(
                   mark_completed(sess.ingest_run[loc.run_id], loc.new_count,
                                  loc.updated_count, loc.unchanged_count, clock),
                   loc.drift_count)
        T == Commit([sess EXCEPT !.ingest_run[loc.run_id] = run])
    IN  /\ db' = T
        /\ sess' = T
        /\ result' = IngestResult(loc.run_id, loc.new_count, loc.updated_count,
                                  loc.unchanged_count, loc.all_drift, None)
        /\ pc' = "idle"
        /\ loc' = loc
        /\ clock' = clock + 1
        /\ lastOp' = <<>>
        /\ UNCHANGED hist

CatalogFinish ==
    /\ pc = "cat_loop"
    /\ loc.idx > Len(loc.courses)
    /\ FinishRun

\* ------------------------------------------------------ ingest_offering

\* the body of "for section_data in sections:" for one section
OfferingSectionBody(st, section_data) ==
    LET r == _upsert_section(st.sess, section_data, st.loc.offering_id, st.loc.run_id, st.clock)
        l1 == [st.loc EXCEPT !.section_map = DictSet(@, section_data.canvas_section_id, r.id),
                             !.all_drift = @ \o r.drift_list,
                             !.drift_count = @ + r.change_count]
    IN  [sess |-> r.T,
         loc |-> Count(l1, r.status, TRUE),
         clock |-> st.clock + 1,
         ops |-> Append(st.ops, Op("section", section_data.canvas_section_id, st.sess,
                                   "section", "canvas_section_id", section_data, r))]

\* "# Step 2a: Upsert the person"
OfferingPerson(st, e) ==
    LET r == _upsert_person(st.sess, e.user_id, e.user_name, e.user_sortable_name,
                            e.user_sis_id, e.user_login_id, st.loc.run_id, st.clock)
        l1 == [st.loc EXCEPT !.all_drift = @ \o r.drift_list,
                             !.drift_count = @ + r.change_count]
    IN  [st |-> [sess |-> r.T,
                 loc |-> Count(l1, r.status, FALSE),
                 clock |-> st.clock + 1,
                 ops |-> Append(st.ops, Op("person", e.user_id, st.sess,
                                           "person", "canvas_user_id",
                                           [name |-> e.user_name,
                                            sortable_name |-> e.user_sortable_name,
                                            sis_user_id |-> e.user_sis_id,
                                            login_id |-> e.user_login_id], r))],
         person_id |-> r.id]

\* fault injection: the external section id taken for the internal one
MapSectionExternal(section_map, course_section_id) == course_section_id

\* "# Step 2b: Map section_id"
MapSection(section_map, course_section_id) ==
    IF course_section_id # NoneId THEN DictGet(section_map, course_section_id) ELSE NoneId

\* "# Step 2c: Upsert the enrollment"
OfferingEnrollmentUpsert(st, e, section_id, person_id) ==
    LET r == _upsert_enrollment(st.sess, e, st.loc.offering_id, section_id, person_id,
                                st.loc.run_id, st.clock)
        l1 == [st.loc EXCEPT !.all_drift = @ \o r.drift_list,
                             !.drift_count = @ + r.change_count]
    IN  [sess |-> r.T,
         loc |-> Count(l1, r.status, TRUE),
         clock |-> st.clock + 1,
         ops |-> Append(st.ops, Op("enrollment", e.canvas_enrollment_id, st.sess,
                                   "enrollment", "canvas_enrollment_id",
                                   [role |-> e.role, enrollment_state |-> e.enrollment_state,
                                    current_grade |-> e.current_grade,
                                    current_score |-> e.current_score,
                                    final_grade |-> e.final_grade,
                                    final_score |-> e.final_score,
                                    section_id |-> section_id], r))]

\* the body of "for enrollment_data in enrollments:" for one enrollment
OfferingEnrollmentBody(st, e) ==
    LET p == OfferingPerson(st, e)
    IN  OfferingEnrollmentUpsert(p.st, e, MapSection(p.st.loc.section_map, e.course_section_id),
                                 p.person_id)

\* "return IngestResult(run_id=0, ..., error=f"Offering {canvas_course_id} not
\* found locally. ...")"
NotFoundLocally(canvas_course_id) ==
    IngestResult(0, 0, 0, 0, <<>>,
                 "Offering " \o ToString(canvas_course_id) \o " not found locally. "
                 \o "Run 'cl ingest catalog' first to populate offerings.")

\* fault injection: the refused request recorded as a failed run
OfferingNotFoundRecorded ==
    /\ Invocable
    /\ \E canvas_course_id \in OfferingRequests :
        LET run_id == Len(db.ingest_run) + 1
            run == mark_failed(NewIngestRun(run_id, "offering", ToString(canvas_course_id), clock),
                               "Offering not found locally", clock)
        IN  /\ FirstWhere(db.offering, "canvas_course_id", canvas_course_id) = 0
            /\ hist' = Remember("offering", NoInput)
            /\ loc' = [NoLoc EXCEPT !.scope = "offering",
                                    !.canvas_course_id = canvas_course_id]
            /\ result' = [NotFoundLocally(canvas_course_id) EXCEPT !.run_id = run_id]
            /\ db' = [db EXCEPT !.ingest_run = Append(@, run)]
            /\ sess' = db'
    /\ lastOp' = <<>>
    /\ UNCHANGED <<pc, clock>>

\* "if offering is None: return IngestResult(run_id=0, ..., error=...)"
OfferingNotFound ==
    /\ Invocable
    /\ \E canvas_course_id \in OfferingRequests :
        /\ FirstWhere(db.offering, "canvas_course_id", canvas_course_id) = 0
        /\ hist' = Remember("offering", NoInput)
        /\ loc' = [NoLoc EXCEPT !.scope = "offering",
                                !.canvas_course_id = canvas_course_id]
        /\ result' = NotFoundLocally(canvas_course_id)
    /\ sess' = db
    /\ lastOp' = <<>>
    /\ UNCHANGED <<db, pc, clock>>

\* the offering is stored: session.add(run); session.commit();
\* sections = client.list_sections(canvas_course_id)
OfferingStart ==
    /\ Invocable
    /\ Len(db.ingest_run) < MaxRuns
    /\ \E canvas_course_id \in OfferingRequests, sections \in SectionLists :
        LET offering == FirstWhere(db.offering, "canvas_course_id", canvas_course_id)
            run_id == Len(db.ingest_run) + 1
            run == NewIngestRun(run_id, "offering", ToString(canvas_course_id), clock)
            T == Commit([db EXCEPT !.ingest_run = Append(@, run)])
        IN  /\ offering # 0
            /\ db' = T
            /\ sess' = T
            /\ loc' = [NoLoc EXCEPT !.scope = "offering", !.run_id = run_id,
                                    !.canvas_course_id = canvas_course_id,
                                    !.offering_id = db.offering[offering].id,
                                    !.sections = sections, !.idx = 1,
                                    !.calls = <<"list_sections">>]
            /\ hist' = Remember("offering", [NoInput EXCEPT !.sections = sections])
    /\ pc' = "off_sections"
    /\ clock' = clock + 1
    /\ result' = NoResult
    /\ lastOp' = <<>>

OfferingSection ==
    /\ pc = "off_sections"
    /\ loc.idx <= Len(loc.sections)
    /\ LET st == OfferingSectionBody([sess |-> sess, loc |-> loc, clock |-> clock, ops |-> <<>>],
                                     loc.sections[loc.idx])
       IN  /\ sess' = st.sess
           /\ loc' = [st.loc EXCEPT !.idx = @ + 1]
           /\ clock' = st.clock
           /\ lastOp' = st.ops
    /\ UNCHANGED <<db, pc, result, hist>>

\* enrollments = client.list_enrollments(canvas_course_id)
OfferingListEnrollmentsWith(lists) ==
    /\ pc = "off_sections"
    /\ loc.idx > Len(loc.sections)
    /\ \E enrollments \in lists :
        /\ loc' = [loc EXCEPT !.enrollments = enrollments, !.idx = 1,
                              !.calls = Append(@, "list_enrollments")]
        /\ hist' = [hist EXCEPT !.input.enrollments = enrollments]
    /\ pc' = "off_enrollments"
    /\ lastOp' = <<>>
    /\ UNCHANGED <<db, sess, clock, result>>

OfferingListEnrollments == OfferingListEnrollmentsWith(EnrollmentLists)

\* the course has a second person, a teacher: both are listed, as they were
\* or both changed, or the student is listed twice with different values
OfferingListRoster ==
    LET EnrollTeacher ==
            [EnrollStudent EXCEPT !.canvas_enrollment_id = 2000, !.user_id = 5002,
                                  !.role = "TeacherEnrollment",
                                  !.user_name = "Teacher Two",
                                  !.current_grade = None, !.current_score = None]
    IN  OfferingListEnrollmentsWith(
            {<<EnrollStudent, EnrollTeacher>>,
             <<EnrollStudent, EnrollStudentChanged>>,
             <<EnrollStudentChanged,
               [EnrollTeacher EXCEPT !.role = "TaEnrollment", !.user_name = "Teacher II"]>>,
             <<EnrollStudent,
               [EnrollStudentChanged EXCEPT !.canvas_enrollment_id = 3000]>>})

OfferingEnrollment ==
    /\ pc = "off_enrollments"
    /\ loc.idx <= Len(loc.enrollments)
    /\ LET st == OfferingEnrollmentBody([sess |-> sess, loc |-> loc, clock |-> clock, ops |-> <<>>],
                                        loc.enrollments[loc.idx])
       IN  /\ sess' = st.sess
           /\ loc' = [st.loc EXCEPT !.idx = @ + 1]
           /\ clock' = st.clock
           /\ lastOp' = st.ops
    /\ UNCHANGED <<db, pc, result, hist>>

OfferingFinish ==
    /\ pc = "off_enrollments"
    /\ loc.idx > Len(loc.enrollments)
    /\ FinishRun

\* ------------------------------------------------------------- failures

\* An exception is its class and its str().
AuthError ==
    [cls |-> "CanvasAuthenticationError",
     msg |-> "Canvas API token is invalid or expired. Please update your token configuration."]

NotFoundError(course_id) ==
    [cls |-> "CanvasNotFoundError",
     msg |-> "Course " \o ToString(course_id) \o " not found."]

ApiError ==
    [cls |-> "CanvasClientError", msg |-> "Canvas API error: Internal Server Error"]

\* an exception of the transport, which the client does not convert
ConnectionError ==
    [cls |-> "ConnectionError", msg |-> "Connection refused"]

\* what session.flush() raises when the store refuses the write
OperationalError ==
    [cls |-> "OperationalError", msg |-> "(sqlite3.OperationalError) database is locked"]

\* what session.commit() raises once a flush of the session has failed
PendingRollbackError ==
    [cls |-> "PendingRollbackError",
     msg |-> "This Session's transaction has been rolled back due to a previous exception during flush."]

\* what a client method can raise
ClientRaises(method, course_id) ==
    IF method = "list_my_courses"
    THEN {AuthError, ApiError, ConnectionError}
    ELSE {NotFoundError(course_id), AuthError, ApiError, ConnectionError}

\* fault injection: an except clause that matches the base class only
CanvasClientErrorOnly == {"CanvasClientError"}

\* class CanvasClientError and its subclasses: what "except CanvasClientError" catches
CanvasClientErrorClasses ==
    {"CanvasClientError", "CanvasAuthenticationError", "CanvasNotFoundError"}

IsCanvasClientError(exc) == exc.cls \in CanvasClientErrorClasses

\* ingest_catalog's except clauses, the message given to run.mark_failed:
\* str(e) for a client error, f"Unexpected error: {e}" otherwise
CatalogFailureMessage(exc) ==
    IF IsCanvasClientError(exc) THEN exc.msg ELSE "Unexpected error: " \o exc.msg

\* ... and how the function ends: the error result, or "raise"
CatalogFailureResult(run_id, exc) ==
    IF IsCanvasClientError(exc)
    THEN IngestResult(run_id, 0, 0, 0, <<>>, exc.msg)
    ELSE Raised(exc)

\* ingest_offering's except clauses: CanvasNotFoundError, CanvasClientError,
\* Exception, in this order
OfferingFailureMessage(exc) ==
    IF exc.cls = "CanvasNotFoundError" THEN exc.msg
    ELSE IF IsCanvasClientError(exc) THEN exc.msg
    ELSE "Unexpected error: " \o exc.msg

OfferingFailureResult(run_id, exc) ==
    IF exc.cls = "CanvasNotFoundError"
    THEN IngestResult(run_id, 0, 0, 0, <<>>, exc.msg)
    ELSE IF IsCanvasClientError(exc)
    THEN IngestResult(run_id, 0, 0, 0, <<>>, exc.msg)
    ELSE Raised(exc)

\* run.mark_failed(message); session.commit(): everything the session has
\* flushed is committed with the failure mark
CommitFailed(T, run_id, message, now) ==
    Commit([T EXCEPT !.ingest_run[run_id] = mark_failed(@, message, now)])

\* an except clause of the running invocation, from the session as it is
Handle(message, res) ==
    LET T == CommitFailed(sess, loc.run_id, message, clock)
    IN  /\ db' = T
        /\ sess' = T
        /\ result' = res
        /\ pc' = "idle"
        /\ clock' = clock + 1
        /\ lastOp' = <<>>
        /\ UNCHANGED hist

\* session.flush() raises: the transaction since the run's insert is rolled
\* back and the session is left inactive, so the "except Exception" clause's
\* session.commit() raises in its turn and the failure mark is lost
HandleFlushError ==
    /\ db' = db
    /\ sess' = db
    /\ result' = Raised(PendingRollbackError)
    /\ pc' = "idle"
    /\ clock' = clock + 1
    /\ lastOp' = <<>>
    /\ UNCHANGED hist

\* client.list_my_courses() raises
CatalogStartFails ==
    /\ Invocable
    /\ Len(db.ingest_run) < MaxRuns
    /\ \E exc \in ClientRaises("list_my_courses", 0) :
        LET run_id == Len(db.ingest_run) + 1
            run == NewIngestRun(run_id, "catalog", None, clock)
            T == CommitFailed(Commit([db EXCEPT !.ingest_run = Append(@, run)]), run_id,
                              CatalogFailureMessage(exc), clock + 1)
        IN  /\ db' = T
            /\ sess' = T
            /\ loc' = [NoLoc EXCEPT !.scope = "catalog", !.run_id = run_id,
                                    !.calls = <<"list_my_courses">>,
                                    !.caught = <<exc>>]
            /\ result' = CatalogFailureResult(run_id, exc)
    /\ hist' = Remember("catalog", NoInput)
    /\ pc' = "idle"
    /\ clock' = clock + 2
    /\ lastOp' = <<>>

\* the course's term was not seen yet and client.get_term_from_course raises
CatalogTermFails ==
    /\ pc = "cat_loop"
    /\ loc.idx <= Len(loc.courses)
    /\ LET c == loc.courses[loc.idx]
       IN  /\ c.term_id # NoneId
           /\ ~DictHas(loc.terms_seen, c.term_id)
           /\ \E exc \in ClientRaises("get_term_from_course", c.canvas_course_id) :
                /\ Handle(CatalogFailureMessage(exc), CatalogFailureResult(loc.run_id, exc))
                /\ loc' = [loc EXCEPT !.calls = Append(@, "get_term_from_course"),
                                      !.caught = <<exc>>]

\* a session.flush() of the course's pass raises
CatalogFlushFails ==
    /\ pc = "cat_loop"
    /\ loc.idx <= Len(loc.courses)
    /\ loc' = [loc EXCEPT !.calls =
                  CatalogTerm([sess |-> sess, loc |-> loc, clock |-> clock, ops |-> <<>>],
                              loc.courses[loc.idx]).st.loc.calls,
                          !.caught = <<OperationalError>>]
    /\ HandleFlushError

\* client.list_sections(canvas_course_id) raises
OfferingStartFails ==
    /\ Invocable
    /\ Len(db.ingest_run) < MaxRuns
    /\ \E canvas_course_id \in OfferingRequests :
        \E exc \in ClientRaises("list_sections", canvas_course_id) :
            LET offering == FirstWhere(db.offering, "canvas_course_id", canvas_course_id)
                run_id == Len(db.ingest_run) + 1
                run == NewIngestRun(run_id, "offering", ToString(canvas_course_id), clock)
                T == CommitFailed(Commit([db EXCEPT !.ingest_run = Append(@, run)]), run_id,
                                  OfferingFailureMessage(exc), clock + 1)
            IN  /\ offering # 0
                /\ db' = T
                /\ sess' = T
                /\ loc' = [NoLoc EXCEPT !.scope = "offering", !.run_id = run_id,
                                        !.canvas_course_id = canvas_course_id,
                                        !.offering_id = db.offering[offering].id,
                                        !.calls = <<"list_sections">>,
                                        !.caught = <<exc>>]
                /\ result' = OfferingFailureResult(run_id, exc)
    /\ hist' = Remember("offering", NoInput)
    /\ pc' = "idle"
    /\ clock' = clock + 2
    /\ lastOp' = <<>>

\* the session.flush() of a section's pass raises
OfferingSectionFlushFails ==
    /\ pc = "off_sections"
    /\ loc.idx <= Len(loc.sections)
    /\ HandleFlushError
    /\ loc' = [loc EXCEPT !.caught = <<OperationalError>>]

\* client.list_enrollments(canvas_course_id) raises, the sections done
OfferingListEnrollmentsFails ==
    /\ pc = "off_sections"
    /\ loc.idx > Len(loc.sections)
    /\ \E exc \in ClientRaises("list_enrollments", loc.canvas_course_id) :
        /\ Handle(OfferingFailureMessage(exc), OfferingFailureResult(loc.run_id, exc))
        /\ loc' = [loc EXCEPT !.calls = Append(@, "list_enrollments"),
                              !.caught = <<exc>>]

\* the session.flush() of an enrollment's pass raises
OfferingEnrollmentFlushFails ==
    /\ pc = "off_enrollments"
    /\ loc.idx <= Len(loc.enrollments)
    /\ HandleFlushError
    /\ loc' = [loc EXCEPT !.caught = <<OperationalError>>]

\* ------------------------------------------------------------ specifications

HistInit ==
    [scope |-> "none", dbBefore |-> EmptyTables, input |-> NoInput,
     prevScope |-> "none", prevInput |-> NoInput, prevCompleted |-> FALSE,
     repeat |-> TRUE, declared |-> 0]

\* Repeated catalog ingestion of an empty ledger, nothing failing.
InitCatalog ==
    /\ db = EmptyTables
    /\ sess = EmptyTables
    /\ pc = "idle"
    /\ loc = NoLoc
    /\ clock = 1
    /\ result = NoResult
    /\ lastOp = <<>>
    /\ hist = HistInit

NextCatalog == CatalogStart \/ CatalogCourse \/ CatalogFinish

SpecCatalog == InitCatalog /\ [][NextCatalog]_vars

\* Repeated catalog ingestion of an empty ledger whose courses share terms.
NextSharedTerm == CatalogStartShared \/ CatalogCourse \/ CatalogFinish

SpecSharedTerm == InitCatalog /\ [][NextSharedTerm]_vars

\* Repeated deep ingestion of the seeded ledger, nothing failing.
InitOffering ==
    /\ db = SeededTables
    /\ sess = SeededTables
    /\ pc = "idle"
    /\ loc = NoLoc
    /\ clock = 2
    /\ result = NoResult
    /\ lastOp = <<>>
    /\ hist = [HistInit EXCEPT !.dbBefore = SeededTables]

NextOffering ==
    \/ OfferingNotFound
    \/ OfferingStart
    \/ OfferingSection
    \/ OfferingListEnrollments
    \/ OfferingEnrollment
    \/ OfferingFinish

SpecOffering == InitOffering /\ [][NextOffering]_vars

\* Catalog and deep ingestions of the seeded ledger in any order, nothing
\* failing.
NextLedger ==
    \/ CatalogStartFew
    \/ CatalogCourse
    \/ CatalogFinish
    \/ OfferingNotFound
    \/ OfferingStart
    \/ OfferingSection
    \/ OfferingListEnrollments
    \/ OfferingEnrollment
    \/ OfferingFinish

SpecLedger == InitOffering /\ [][NextLedger]_vars

\* Catalog runs of one course and offering runs of the seeded course with
\* its two persons, in any order on the seeded ledger; a flush of a catalog
\* run can fail.
NextHistory ==
    \/ CatalogStartOne
    \/ CatalogCourse
    \/ CatalogFinish
    \/ CatalogFlushFails
    \/ OfferingStart
    \/ OfferingSection
    \/ OfferingListRoster
    \/ OfferingEnrollment
    \/ OfferingFinish

SpecHistory == InitOffering /\ [][NextHistory]_vars

\* One invocation of either function on an empty or a seeded ledger, where
\* the client and the store can fail.
Init ==
    /\ db \in {EmptyTables, SeededTables}
    /\ sess = db
    /\ pc = "idle"
    /\ loc = NoLoc
    /\ clock = 2
    /\ result = NoResult
    /\ lastOp = <<>>
    /\ hist = [HistInit EXCEPT !.dbBefore = db, !.repeat = FALSE]

Next ==
    \/ CatalogStart
    \/ CatalogCourse
    \/ CatalogFinish
    \/ CatalogStartFails
    \/ CatalogTermFails
    \/ CatalogFlushFails
    \/ OfferingNotFound
    \/ OfferingStart
    \/ OfferingSection
    \/ OfferingListEnrollments
    \/ OfferingEnrollment
    \/ OfferingFinish
    \/ OfferingStartFails
    \/ OfferingSectionFlushFails
    \/ OfferingListEnrollmentsFails
    \/ OfferingEnrollmentFlushFails

Spec == Init /\ [][Next]_vars

\* ------------------------------------------- one reconciliation at a time

\* A ledger holding one record of every kind, mid-run: run 1 is running.
RecordLedger ==
    [EmptyTables EXCEPT
        !.term = SeededTables.term,
        !.offering = Append(SeededTables.offering,
                            [SeededTables.offering[1] EXCEPT
                                !.id = 2, !.canvas_course_id = CourseLab.canvas_course_id,
                                !.name = CourseLab.name, !.code = CourseLab.code]),
        !.user_enrollment = <<[id |-> 1, canvas_enrollment_id |-> 7001, offering_id |-> 1,
                               role |-> "teacher", enrollment_state |-> "active",
                               observed_at |-> 1, last_seen_at |-> 1]>>,
        !.section = <<[id |-> 1, canvas_section_id |-> 100, offering_id |-> 1,
                       name |-> "Section A", sis_section_id |-> "SEC-A",
                       observed_at |-> 1, last_seen_at |-> 1]>>,
        !.person = <<[id |-> 1, canvas_user_id |-> 5001, name |-> "Student One",
                      sortable_name |-> "One, Student", sis_user_id |-> "S001",
                      login_id |-> "student1@example.com",
                      observed_at |-> 1, last_seen_at |-> 1],
                     [id |-> 2, canvas_user_id |-> 5003, name |-> "Student Three",
                      sortable_name |-> "Three, Student", sis_user_id |-> "S003",
                      login_id |-> "student3@example.com",
                      observed_at |-> 1, last_seen_at |-> 1]>>,
        !.enrollment = <<[id |-> 1, canvas_enrollment_id |-> 1000, offering_id |-> 1,
                          section_id |-> 1, person_id |-> 1,
                          role |-> "StudentEnrollment", enrollment_state |-> "active",
                          current_grade |-> "B", current_score |-> "85.0",
                          final_grade |-> None, final_score |-> None,
                          observed_at |-> 1, last_seen_at |-> 1]>>,
        !.ingest_run = <<NewIngestRun(1, "offering", ToString(SeededCourseId), 2)>>]

\* The values a tracked field takes, observed and stored.
TermObserved ==
    [name : {"Fall 2025", "Fall 25"},
     start_date : {None, "2025-01-01 00:00:00+00:00"},
     end_date : {None, "2025-06-01 00:00:00+00:00"}]

TermStored == {[t EXCEPT !.start_date = StoreDateTime(@), !.end_date = StoreDateTime(@)] :
                  t \in TermObserved}

OfferingValues ==
    [name : {"Test Course", "Test Course II"},
     code : {None, "TEST101"},
     workflow_state : {"available", "completed"},
     term_id : {NoneId, 1}]

UserEnrollmentValues ==
    [role : {"teacher", "ta"}, enrollment_state : {"active", "completed"}]

SectionValues ==
    [name : {"Section A", "Section B"}, sis_section_id : {None, "SEC-A"}]

PersonValues ==
    [name : {"Student One", "Student 1"},
     sortable_name : {None, "One, Student"},
     sis_user_id : {None, "S001"},
     login_id : {None, "student1@example.com"}]

EnrollmentValues ==
    [role : {"StudentEnrollment", "TaEnrollment"},
     enrollment_state : {"active", "completed"},
     current_grade : {None, "B"},
     current_score : {None, "85.0"},
     final_grade : {None, "A"},
     final_score : {None, "95.0"},
     section_id : {NoneId, 1}]

\* the record of a table with its tracked fields set to v's
WithValues(row, fields, v) ==
    [f \in DOMAIN row |-> IF f \in SeqToSet(fields) THEN v[f] ELSE row[f]]

\* the ledgers RecordLedger gives by varying the tracked fields of one record
RecordLedgers ==
    {[RecordLedger EXCEPT !.term[1] = WithValues(@, TermTracked, v)] : v \in TermStored}
    \cup {[RecordLedger EXCEPT !.offering[1] = WithValues(@, OfferingTracked, v)] :
            v \in OfferingValues}
    \cup {[RecordLedger EXCEPT !.user_enrollment[1] = WithValues(@, UserEnrollmentTracked, v)] :
            v \in UserEnrollmentValues}
    \cup {[RecordLedger EXCEPT !.section[1] = WithValues(@, SectionTracked, v)] :
            v \in SectionValues}
    \cup {[RecordLedger EXCEPT !.person[1] = WithValues(@, PersonTracked, v)] :
            v \in PersonValues}
    \cup {[RecordLedger EXCEPT !.enrollment[1] = WithValues(@, EnrollmentTracked, v)] :
            v \in EnrollmentValues}

InitReconciler ==
    /\ db \in RecordLedgers
    /\ sess = db
    /\ pc = "reconcile"
    /\ loc = [NoLoc EXCEPT !.scope = "offering", !.run_id = 1, !.offering_id = 1,
                           !.canvas_course_id = SeededCourseId]
    /\ clock = 3
    /\ result = NoResult
    /\ lastOp = <<>>
    /\ hist = [HistInit EXCEPT !.dbBefore = db, !.scope = "offering", !.repeat = FALSE]

\* the step of a reconciliation r of the session, recorded as op
Reconciled(r, op) ==
    /\ sess' = r.T
    /\ lastOp' = <<op>>
    /\ pc' = "reconciled"
    /\ clock' = clock + 1
    /\ UNCHANGED <<db, loc, result, hist>>

\* each reconciler on the stored record's external id, or on an unknown one
ReconcileTerm ==
    /\ pc = "reconcile"
    /\ \E v \in TermObserved, cid \in {sess.term[1].canvas_term_id, 1002} :
        LET term_data == [canvas_term_id |-> cid, name |-> v.name,
                          start_date |-> v.start_date, end_date |-> v.end_date]
            r == _upsert_term(sess, term_data, loc.run_id, clock)
        IN  Reconciled(r, Op("term", cid, sess, "term", "canvas_term_id", term_data, r))

ReconcileOffering ==
    /\ pc = "reconcile"
    /\ \E v \in OfferingValues, cid \in {SeededCourseId, UnknownCourseId} :
        LET course_data == [canvas_course_id |-> cid, name |-> v.name, code |-> v.code,
                            workflow_state |-> v.workflow_state]
            r == _upsert_offering(sess, course_data, v.term_id, loc.run_id, clock)
        IN  Reconciled(r, Op("offering", cid, sess, "offering", "canvas_course_id", v, r))

ReconcileUserEnrollment ==
    /\ pc = "reconcile"
    /\ \E v \in UserEnrollmentValues, cid \in {sess.user_enrollment[1].canvas_enrollment_id, 7002},
          offering_id \in 1..Len(sess.offering) :
        LET r == _upsert_user_enrollment(sess, cid, offering_id, v.role,
                                         v.enrollment_state, loc.run_id, clock)
        IN  Reconciled(r, Op("user_enrollment", cid, sess, "user_enrollment",
                             "canvas_enrollment_id",
                             [role |-> v.role, enrollment_state |-> v.enrollment_state,
                              canvas_enrollment_id |-> cid, offering_id |-> offering_id], r))

ReconcileSection ==
    /\ pc = "reconcile"
    /\ \E v \in SectionValues, cid \in {sess.section[1].canvas_section_id, 200},
          offering_id \in 1..Len(sess.offering) :
        LET section_data == [canvas_section_id |-> cid, name |-> v.name,
                             sis_section_id |-> v.sis_section_id]
            r == _upsert_section(sess, section_data, offering_id, loc.run_id, clock)
        IN  Reconciled(r, Op("section", cid, sess, "section", "canvas_section_id",
                             [canvas_section_id |-> cid, name |-> v.name,
                              sis_section_id |-> v.sis_section_id,
                              offering_id |-> offering_id], r))

ReconcilePerson ==
    /\ pc = "reconcile"
    /\ \E v \in PersonValues, cid \in {sess.person[1].canvas_user_id, 5002} :
        LET r == _upsert_person(sess, cid, v.name, v.sortable_name, v.sis_user_id,
                                v.login_id, loc.run_id, clock)
        IN  Reconciled(r, Op("person", cid, sess, "person", "canvas_user_id", v, r))

ReconcileEnrollment ==
    /\ pc = "reconcile"
    /\ \E v \in EnrollmentValues, cid \in {sess.enrollment[1].canvas_enrollment_id, 2000},
          offering_id \in 1..Len(sess.offering), person_id \in 1..Len(sess.person) :
        LET enrollment_data ==
                [canvas_enrollment_id |-> cid, role |-> v.role,
                 enrollment_state |-> v.enrollment_state,
                 current_grade |-> v.current_grade, current_score |-> v.current_score,
                 final_grade |-> v.final_grade, final_score |-> v.final_score]
            r == _upsert_enrollment(sess, enrollment_data, offering_id, v.section_id,
                                    person_id, loc.run_id, clock)
        IN  Reconciled(r, Op("enrollment", cid, sess, "enrollment",
                             "canvas_enrollment_id",
                             [role |-> v.role, enrollment_state |-> v.enrollment_state,
                              current_grade |-> v.current_grade,
                              current_score |-> v.current_score,
                              final_grade |-> v.final_grade, final_score |-> v.final_score,
                              section_id |-> v.section_id,
                              canvas_enrollment_id |-> cid,
                              offering_id |-> offering_id, person_id |-> person_id], r))

NextReconciler ==
    \/ ReconcileTerm
    \/ ReconcileOffering
    \/ ReconcileUserEnrollment
    \/ ReconcileSection
    \/ ReconcilePerson
    \/ ReconcileEnrollment

SpecReconciler == InitReconciler /\ [][NextReconciler]_vars

\* ------------------------------------------------------------ properties

\* the tracked fields of every row of a table are the same in T1 and T2
TrackedSame(T1, T2, table, fields) ==
    /\ Len(T1[table]) = Len(T2[table])
    /\ \A i \in 1..Len(T1[table]) : \A k \in 1..Len(fields) :
          T1[table][i][fields[k]] = T2[table][i][fields[k]]

\* a run of the scope has just completed, right after a completed run of the
\* same scope that was given the same client output
SecondRunOfSame(scope) ==
    /\ pc = "idle"
    /\ result.kind = "return"
    /\ result.error = None
    /\ hist.scope = scope
    /\ hist.prevScope = scope
    /\ hist.prevCompleted
    /\ hist.input = hist.prevInput

\* C1 (catalog idempotence): the second of two consecutive ingest_catalog
\* runs with identical client output reports new_count = 0 and
\* updated_count = 0, appends no change-log row and leaves every tracked
\* field of every Term, Offering and UserEnrollment as it was.
C1_CatalogIdempotence ==
    SecondRunOfSame("catalog") =>
        /\ result.new_count = 0
        /\ result.updated_count = 0
        /\ db.change_log = hist.dbBefore.change_log
        /\ TrackedSame(db, hist.dbBefore, "term", TermTracked)
        /\ TrackedSame(db, hist.dbBefore, "offering", OfferingTracked)
        /\ TrackedSame(db, hist.dbBefore, "user_enrollment", UserEnrollmentTracked)

\* what the second run of SecondRunOfSame("offering") must have done
OfferingSecondRunQuiet ==
    /\ result.new_count = 0
    /\ result.updated_count = 0
    /\ db.change_log = hist.dbBefore.change_log
    /\ Len(db.section) = Len(hist.dbBefore.section)
    /\ Len(db.person) = Len(hist.dbBefore.person)
    /\ Len(db.enrollment) = Len(hist.dbBefore.enrollment)

\* C2 as stated (offering-scope idempotence for every section list and
\* enrollment list): the second of two consecutive ingest_offering runs
\* with identical client output reports new_count = 0 and updated_count = 0,
\* appends no change-log row and adds no Section, Person or Enrollment row.
C2_OfferingIdempotence ==
    SecondRunOfSame("offering") => OfferingSecondRunQuiet

\* the observations of one external identifier in the lists agree: sections
\* of the same id, the user data of the same user, enrollments of the same id
AgreeingObservations(sections, enrollments) ==
    /\ \A i, j \in 1..Len(sections) :
          sections[i].canvas_section_id = sections[j].canvas_section_id
              => sections[i] = sections[j]
    /\ \A i, j \in 1..Len(enrollments) :
          /\ enrollments[i].user_id = enrollments[j].user_id
                => /\ enrollments[i].user_name = enrollments[j].user_name
                   /\ enrollments[i].user_sortable_name = enrollments[j].user_sortable_name
                   /\ enrollments[i].user_sis_id = enrollments[j].user_sis_id
                   /\ enrollments[i].user_login_id = enrollments[j].user_login_id
          /\ enrollments[i].canvas_enrollment_id = enrollments[j].canvas_enrollment_id
                => enrollments[i] = enrollments[j]

\* C2, amended: the same, for the section lists and enrollment lists whose
\* observations of one external identifier agree.
C2_OfferingIdempotenceAgreeing ==
    (/\ SecondRunOfSame("offering")
     /\ AgreeingObservations(hist.input.sections, hist.input.enrollments))
        => OfferingSecondRunQuiet

\* a second run of the same section and the same enrollment, listed twice,
\* has ended with everything unchanged
C2_Witness ==
    /\ SecondRunOfSame("offering")
    /\ AgreeingObservations(hist.input.sections, hist.input.enrollments)
    /\ Len(hist.input.sections) = 1
    /\ Len(hist.input.enrollments) = 2
    /\ result.unchanged_count = 3

\* the tracked fields of each kind, as the field table lists them
ListedFields(entity_type) ==
    CASE entity_type = "term" -> {"name", "start_date", "end_date"}
      [] entity_type = "offering" -> {"name", "code", "workflow_state", "term_id"}
      [] entity_type = "user_enrollment" -> {"role", "enrollment_state"}
      [] entity_type = "section" -> {"name", "sis_section_id"}
      [] entity_type = "person" -> {"name", "sortable_name", "sis_user_id", "login_id"}
      [] entity_type = "enrollment" ->
            {"role", "enrollment_state", "current_grade", "current_score",
             "final_grade", "final_score", "section_id"}

\* a value as the change log holds it: its text, or null for None
Stringified(f, v) ==
    IF f \in {"term_id", "section_id"}
    THEN IF v = NoneId THEN None ELSE ToString(v)
    ELSE v

\* the rows a reconciliation of a stored record has appended are exactly
\* one per listed field whose observed value differs from the stored one
DiffLogged(op) ==
    LET D == {f \in ListedFields(op.entity_type) : op.before[1][f] # op.obs[f]}
    IN  /\ Len(op.logged) = Cardinality(D)
        /\ \A f \in D :
              \E i \in 1..Len(op.logged) :
                  /\ op.logged[i].field_name = f
                  /\ op.logged[i].entity_type = op.entity_type
                  /\ op.logged[i].entity_canvas_id = op.canvas_id
                  /\ op.logged[i].old_value = Stringified(f, op.before[1][f])
                  /\ op.logged[i].new_value = Stringified(f, op.obs[f])

\* C3 (field-level diff completeness): re-ingesting an existing entity of
\* any kind with exactly k listed fields different from the stored values
\* appends exactly k change-log rows for that entity, one per differing
\* field, with old_value the stringified stored value and new_value the
\* stringified observed value.
C3_DiffCompleteness ==
    \A n \in 1..Len(lastOp) : lastOp[n].before # <<>> => DiffLogged(lastOp[n])

\* an enrollment whose seven tracked fields all differ has been re-ingested
C3_Witness ==
    /\ pc = "reconciled"
    /\ lastOp[1].entity_type = "enrollment"
    /\ lastOp[1].before # <<>>
    /\ lastOp[1].status = "updated"
    /\ Len(lastOp[1].logged) = 7

\* a reconciliation that found no stored record created it as 'new' and
\* appended no change-log row
NewNotLogged(op) ==
    op.before = <<>> =>
        /\ op.status = "new"
        /\ op.after.observed_at = op.after.last_seen_at
        /\ op.change_count = 0
        /\ op.logged = <<>>

\* the observations of one external identifier in a course list agree:
\* courses of the same id, terms of the same id, enrollments of the same id
AgreeingCourses(courses) ==
    \A i, j \in 1..Len(courses) :
        /\ courses[i].canvas_course_id = courses[j].canvas_course_id
              => courses[i] = courses[j]
        /\ \A a \in 1..Len(courses[i].term), b \in 1..Len(courses[j].term) :
              courses[i].term[a].canvas_term_id = courses[j].term[b].canvas_term_id
                  => courses[i].term[a] = courses[j].term[b]
        /\ \A a \in 1..Len(courses[i].enrollments), b \in 1..Len(courses[j].enrollments) :
              courses[i].enrollments[a].canvas_enrollment_id
                    = courses[j].enrollments[b].canvas_enrollment_id
                  => /\ courses[i].enrollments[a] = courses[j].enrollments[b]
                     /\ courses[i].canvas_course_id = courses[j].canvas_course_id

\* a catalog run against the empty ledger, started or ended
OnEmptyLedger ==
    /\ hist.scope = "catalog"
    /\ hist.dbBefore = EmptyTables

\* C4 as stated (new-entity no-diff rule): a reconciliation of any kind that
\* finds no stored record creates it with status 'new' and appends no
\* change-log row; hence a run against an empty ledger leaves the change
\* log empty.
C4_NewEntityNoDiff ==
    /\ \A n \in 1..Len(lastOp) : NewNotLogged(lastOp[n])
    /\ OnEmptyLedger => (sess.change_log = <<>> /\ db.change_log = <<>>)

\* C4, amended: the same, the run against an empty ledger being given a
\* course list whose observations of one external identifier agree.
C4_NewEntityNoDiffAgreeing ==
    /\ \A n \in 1..Len(lastOp) : NewNotLogged(lastOp[n])
    /\ (OnEmptyLedger /\ AgreeingCourses(hist.input.courses))
          => (sess.change_log = <<>> /\ db.change_log = <<>>)

\* a run against the empty ledger has created the records of two courses
C4_Witness ==
    /\ OnEmptyLedger
    /\ AgreeingCourses(hist.input.courses)
    /\ pc = "idle"
    /\ result.kind = "return"
    /\ result.error = None
    /\ Len(hist.input.courses) = 2
    /\ result.new_count = 5
    /\ Len(db.offering) = 2

\* the entity tables and the change log of a database
EntitiesOf(T) == [T EXCEPT !.ingest_run = <<>>]

\* an invocation that created a run has ended
RunEnded ==
    /\ pc = "idle"
    /\ loc.run_id # 0

\* ... after its except clauses caught exc
Caught(exc) ==
    /\ RunEnded
    /\ loc.caught = <<exc>>

\* C5 (all-or-nothing on failure): when an invocation ends with its run
\* marked failed because a client call failed after entities had been
\* reconciled, the committed entity tables and change log equal their
\* contents before the run.
C5_AllOrNothing ==
    (/\ RunEnded
     /\ loc.caught # <<>>
     /\ loc.calls # <<>>
     /\ db.ingest_run[loc.run_id].status = "failed")
        => EntitiesOf(db) = EntitiesOf(hist.dbBefore)

\* the rows of a committed database that a run has written: the change-log
\* rows it owns and the entity rows it has seen
RunRows(T, run) ==
    [change_log |-> {i \in 1..Len(T.change_log) : T.change_log[i].ingest_run_id = run.id},
     entities |-> {<<table, i>> \in
                      {"term", "offering", "user_enrollment", "section", "person", "enrollment"}
                      \X (1..6) :
                      /\ i <= Len(T[table])
                      /\ T[table][i].last_seen_at >= run.started_at}]

\* no committed state holds rows of a run whose status is still running
NothingOfRunning ==
    \A i \in 1..Len(db.ingest_run) :
        db.ingest_run[i].status = "running"
            => /\ RunRows(db, db.ingest_run[i]).change_log = {}
               /\ RunRows(db, db.ingest_run[i]).entities = {}

\* the commit that makes a run completed is the commit of all that the
\* session holds of the run
CompletedWithAll ==
    (/\ pc # "idle"
     /\ pc' = "idle"
     /\ db'.ingest_run[loc.run_id].status = "completed")
        => EntitiesOf(db') = EntitiesOf(Commit(sess))

\* C6 (the run record and the data commit together): in every committed
\* state a run whose status is running has none of its entity changes and
\* change-log rows committed, and the commit that makes it completed holds
\* all of them.
C6_CommitTogether == [](NothingOfRunning) /\ [][CompletedWithAll]_vars

\* a run that logged changes has completed, all of it committed
C6_Witness ==
    /\ RunEnded
    /\ db.ingest_run[loc.run_id].status = "completed"
    /\ db.ingest_run[loc.run_id].drift_count > 0
    /\ RunRows(db, db.ingest_run[loc.run_id]).change_log # {}
    /\ RunRows(db, db.ingest_run[loc.run_id]).entities # {}

\* C7 (a failed run is persisted as failed): every invocation that created
\* an IngestRun and did not succeed, whatever was raised and wherever,
\* leaves that run committed with status failed, a completed_at and a
\* non-empty error message.
C7_FailedRunPersisted ==
    (RunEnded /\ loc.caught # <<>>)
        => /\ db.ingest_run[loc.run_id].status = "failed"
           /\ db.ingest_run[loc.run_id].completed_at # 0
           /\ db.ingest_run[loc.run_id].error_message \notin {None, ""}

\* the classes of the authentication, not-found and generic client errors
ExpectedFailures ==
    {"CanvasAuthenticationError", "CanvasNotFoundError", "CanvasClientError"}

\* C8 (expected failures never escape): whenever a client call of
\* ingest_catalog or ingest_offering raises an authentication, not-found or
\* generic client error, the function returns an IngestResult whose error
\* is the error's message, and raises nothing.
C8_ClientErrorsReturned ==
    (/\ RunEnded
     /\ loc.caught # <<>>
     /\ loc.caught[1].cls \in ExpectedFailures)
        => /\ result.kind = "return"
           /\ result.error = loc.caught[1].msg
           /\ result.run_id = loc.run_id

\* get_term_from_course has failed the authentication on a later course and
\* the error came back as a result
C8_Witness ==
    /\ Caught(AuthError)
    /\ loc.idx > 1
    /\ loc.calls[Len(loc.calls)] = "get_term_from_course"
    /\ result.kind = "return"
    /\ result.error = AuthError.msg

\* C9 (unexpected errors are never swallowed): when an exception that is
\* not a client error occurs after the run was created, the run is marked
\* failed with the message prefixed 'Unexpected error:' and committed, and
\* the same exception is raised; no IngestResult is returned.
C9_UnexpectedReraised ==
    (/\ RunEnded
     /\ loc.caught # <<>>
     /\ loc.caught[1].cls \notin ExpectedFailures)
        => /\ db.ingest_run[loc.run_id].status = "failed"
           /\ db.ingest_run[loc.run_id].error_message
                 = "Unexpected error: " \o loc.caught[1].msg
           /\ result = Raised(loc.caught[1])

\* ingest_offering was asked for a course id no stored Offering has
Refused ==
    /\ pc = "idle"
    /\ loc.scope = "offering"
    /\ FirstWhere(hist.dbBefore.offering, "canvas_course_id", loc.canvas_course_id) = 0

\* C10 (deep-ingest precondition): ingest_offering for a course id with no
\* stored Offering returns a result with run_id = 0, an error and zero
\* counts, inserts no IngestRun row, calls no client method and leaves every
\* table unchanged.
C10_DeepIngestPrecondition ==
    Refused
        => /\ result.kind = "return"
           /\ result.run_id = 0
           /\ result.error # None
           /\ result.new_count = 0
           /\ result.updated_count = 0
           /\ result.unchanged_count = 0
           /\ loc.calls = <<>>
           /\ db = hist.dbBefore

\* the seeded ledger was asked for the unknown course
C10_Witness ==
    /\ Refused
    /\ hist.scope = "offering"
    /\ loc.canvas_course_id = UnknownCourseId
    /\ db.offering # <<>>
    /\ result.run_id = 0

\* a run row is finalised: completed or failed
RunFinalised(run) == run.status \in {"completed", "failed"}

\* a step changes the committed status of a run only from running, and only
\* to completed or failed; a new row is running unless the same step is the
\* end of the invocation that created it
StatusChangesOnce ==
    \A i \in 1..Len(db'.ingest_run) :
        IF i <= Len(db.ingest_run)
        THEN db'.ingest_run[i].status # db.ingest_run[i].status
                => /\ db.ingest_run[i].status = "running"
                   /\ RunFinalised(db'.ingest_run[i])
        ELSE db'.ingest_run[i].status = "running" \/ pc' = "idle"

\* a step leaves every finalised run row as it is
FinalisedKept ==
    \A i \in 1..Len(db.ingest_run) :
        RunFinalised(db.ingest_run[i]) => db'.ingest_run[i] = db.ingest_run[i]

\* the terminal half of the run lifecycle, over repeated runs
RunsTerminal == [][StatusChangesOnce /\ FinalisedKept]_vars

\* C11 (run lifecycle): every IngestRun is created running and changes
\* status exactly once, to completed or to failed, before the invocation
\* that created it returns or raises; a finalised run's status, counters,
\* completed_at and error_message are changed by no later step.
C11_RunLifecycle ==
    /\ [](RunEnded => RunFinalised(db.ingest_run[loc.run_id]))
    /\ [][StatusChangesOnce /\ FinalisedKept]_vars

EntityTables == {"term", "offering", "user_enrollment", "section", "person", "enrollment"}

\* the timestamps of the n-th reconciliation of a step that began at time
\* now: last_seen_at is the reconciliation's time and not less than before;
\* observed_at moves only if a tracked field differed
OpTimestamps(op, now) ==
    /\ op.after.last_seen_at = now
    /\ op.before # <<>> =>
          /\ op.after.last_seen_at >= op.before[1].last_seen_at
          /\ op.after.observed_at # op.before[1].observed_at
                => \E f \in ListedFields(op.entity_type) : op.before[1][f] # op.obs[f]
          /\ op.status = "unchanged"
                => op.after.observed_at = op.before[1].observed_at

\* no committed row's last_seen_at decreases in a step
LastSeenKept ==
    \A table \in EntityTables : \A i \in 1..Len(db[table]) :
        db'[table][i].last_seen_at >= db[table][i].last_seen_at

\* C12 (timestamp monotonicity): across any sequence of runs an entity's
\* last_seen_at never decreases and is set to the reconciliation time by
\* every reconciliation; observed_at changes in a reconciliation only if a
\* tracked field differed, an 'unchanged' one leaving it as it was.
C12_TimestampMonotonicity ==
    [][/\ \A n \in 1..Len(lastOp') : OpTimestamps(lastOp'[n], clock + n - 1)
       /\ LastSeenKept]_vars

\* a later run has found a stored record unchanged: seen now, observed before
C12_Witness ==
    /\ Len(db.ingest_run) = 2
    /\ \E n \in 1..Len(lastOp) :
          /\ lastOp[n].before # <<>>
          /\ lastOp[n].status = "unchanged"
          /\ lastOp[n].after.last_seen_at > lastOp[n].before[1].last_seen_at
          /\ lastOp[n].after.observed_at = lastOp[n].before[1].observed_at
          /\ lastOp[n].after.observed_at < hist.dbBefore.ingest_run[1].completed_at

\* every entity row of the tables T was observed no later than last seen
ObservedBeforeSeen(T) ==
    \A table \in EntityTables : \A i \in 1..Len(T[table]) :
        T[table][i].observed_at <= T[table][i].last_seen_at

\* C13: in every reachable state every Term, Offering, UserEnrollment,
\* Section, Person and Enrollment row has observed_at <= last_seen_at, in
\* the committed database and in the running session alike.
C13_ObservedBeforeSeen ==
    /\ ObservedBeforeSeen(db)
    /\ ObservedBeforeSeen(sess)

\* a second run has left one offering unchanged (observed before it was last
\* seen) and has updated another (observed when last seen, its change logged)
C13_Witness ==
    /\ pc = "idle"
    /\ Len(db.ingest_run) = 2
    /\ \E i, j \in 1..Len(db.offering) :
          /\ db.offering[i].observed_at < db.offering[i].last_seen_at
          /\ db.offering[j].observed_at = db.offering[j].last_seen_at
          /\ \E k \in 1..Len(db.change_log) :
                /\ db.change_log[k].entity_type = "offering"
                /\ db.change_log[k].entity_canvas_id = db.offering[j].canvas_course_id
                /\ db.change_log[k].observed_at = db.offering[j].observed_at
                /\ db.change_log[k].ingest_run_id = 2

\* the change-log rows of the tables T that a run owns
DriftRowsOf(T, run_id) ==
    {i \in 1..Len(T.change_log) : T.change_log[i].ingest_run_id = run_id}

\* the invocation has ended with its run completed
RunCompleted ==
    /\ RunEnded
    /\ db.ingest_run[loc.run_id].status = "completed"

\* C14 (drift counter): the persisted drift_count of every completed run of
\* either scope is the number of change-log rows whose ingest_run_id is the
\* run, and those rows are exactly the rows appended during the run, the
\* changes of Terms included.
C14_DriftCounter ==
    /\ \A i \in 1..Len(db.ingest_run) :
          db.ingest_run[i].status = "completed"
              => db.ingest_run[i].drift_count = Cardinality(DriftRowsOf(db, i))
    /\ RunCompleted
          => DriftRowsOf(db, loc.run_id)
                = (Len(hist.dbBefore.change_log) + 1)..Len(db.change_log)

\* a second run has changed an offering's name, code and workflow state and
\* a term, and its drift_count counts every row it appended
C14_Witness ==
    /\ RunCompleted
    /\ loc.run_id = 2
    /\ db.ingest_run[2].drift_count >= 3
    /\ db.ingest_run[2].drift_count = Len(db.change_log) - Len(hist.dbBefore.change_log)
    /\ \A f \in {"name", "code", "workflow_state"} :
          \E k \in DriftRowsOf(db, 2) :
              /\ db.change_log[k].entity_type = "offering"
              /\ db.change_log[k].field_name = f
    /\ \E k \in DriftRowsOf(db, 2) : db.change_log[k].entity_type = "term"

Statuses == {"new", "updated", "unchanged"}

\* the run-level counter of a status in the locals or in a run row
CounterOf(r, status) ==
    CASE status = "new" -> r.new_count
      [] status = "updated" -> r.updated_count
      [] OTHER -> r.unchanged_count

\* a step's reconciliations each add 1 to the counter of their status
EachCounted ==
    lastOp' # <<>> =>
        \A status \in Statuses :
            CounterOf(loc', status) - CounterOf(loc, status)
                = Cardinality({n \in 1..Len(lastOp') : lastOp'[n].status = status})

\* a completed run's row and result carry the counters of the run
CountersStored ==
    RunCompleted =>
        \A status \in Statuses :
            /\ CounterOf(db.ingest_run[loc.run_id], status) = CounterOf(loc, status)
            /\ CounterOf(result, status) = CounterOf(loc, status)

\* C15 (run-level status counts cover every reconciled entity): every
\* reconciled Term, Offering, UserEnrollment, Section, Person and Enrollment
\* adds exactly 1 to exactly the counter of its status, so that a completed
\* run's new_count + updated_count + unchanged_count is the number of
\* reconciliations performed in the run.
C15_CountsCoverAll == [](CountersStored) /\ [][EachCounted]_vars

\* the change-log rows a run owns that are not of a Term, in order
NonTermRowsOf(T, run_id) ==
    LET OfRun(row) == row.ingest_run_id = run_id /\ row.entity_type # "term"
    IN  SelectSeq(T.change_log, OfRun)

\* a description is the description of a change-log row
Describes(text, row) ==
    /\ text[1] = row.entity_type
    /\ text[2] = ToString(row.entity_canvas_id)
    /\ text[3] = row.field_name
    /\ text[4] = Fmt(row.old_value)
    /\ text[5] = Fmt(row.new_value)

\* C16 (drift summary list): the drift_detected list a completed run
\* returns holds exactly one description for every change-log row the run
\* appended for an Offering, UserEnrollment, Section, Person or Enrollment,
\* whatever the tracked field, and no description of a Term change.
C16_DriftSummary ==
    RunCompleted =>
        LET rows == NonTermRowsOf(db, loc.run_id)
        IN  /\ Len(result.drift_detected) = Len(rows)
            /\ \A n \in 1..Len(rows) : Describes(result.drift_detected[n], rows[n])

\* the fields whose change a run's summary describes, by kind
SummarisedFields(entity_type) ==
    CASE entity_type = "offering" -> {"name", "code", "workflow_state", "term_id"}
      [] entity_type = "user_enrollment" -> {"role", "enrollment_state"}
      [] entity_type = "section" -> {"name", "sis_section_id"}
      [] entity_type = "person" -> {"name"}
      [] entity_type = "enrollment" -> {"role", "enrollment_state"}
      [] OTHER -> {}

\* the change-log rows a run owns of a summarised field, in order
SummarisedRowsOf(T, run_id) ==
    LET OfRun(row) == /\ row.ingest_run_id = run_id
                      /\ row.field_name \in SummarisedFields(row.entity_type)
    IN  SelectSeq(T.change_log, OfRun)

\* C16, amended: the drift_detected list of a completed run holds, in the
\* order of the change log, exactly one description for every change-log
\* row the run appended for a field of an Offering, UserEnrollment or
\* Section, for the name of a Person and for the role or enrollment_state
\* of an Enrollment, and none for any other change.
C16_DriftSummaryOfSummarised ==
    RunCompleted =>
        LET rows == SummarisedRowsOf(db, loc.run_id)
        IN  /\ Len(result.drift_detected) = Len(rows)
            /\ \A n \in 1..Len(rows) : Describes(result.drift_detected[n], rows[n])

\* a run that changed a person's four fields and an enrollment's role,
\* state and grades has returned the three descriptions
C16_Witness ==
    /\ RunCompleted
    /\ hist.scope = "offering"
    /\ Len(result.drift_detected) = 3
    /\ Len(NonTermRowsOf(db, loc.run_id)) >= 10
    /\ result.drift_detected[1][1] = "person"
    /\ result.drift_detected[1][3] = "name"
    /\ result.drift_detected[2][1] = "enrollment"

\* the external term ids the courses of the run reference
TermsReferenced == {loc.courses[k].term_id : k \in 1..Len(loc.courses)} \ {NoneId}

\* the reconciliations of a Term among the reconciliations ops
TermOps(ops, t) ==
    {n \in 1..Len(ops) : ops[n].entity_type = "term" /\ ops[n].canvas_id = t}

\* a pass of the course loop reconciles a term at most once, only a term no
\* earlier pass of the run has reconciled, and at most one reconciliation
\* of the run finds a term new
TermOncePerRun ==
    (pc = "cat_loop" /\ pc' = "cat_loop") =>
        \A t \in TermsReferenced :
            /\ Cardinality(TermOps(lastOp', t)) <= 1
            /\ TermOps(lastOp', t) # {} =>
                  /\ ~DictHas(loc.terms_seen, t)
                  /\ DictHas(loc'.terms_seen, t)
                  /\ \A n \in TermOps(lastOp', t) :
                        lastOp'[n].status = "new"
                            => FirstWhere(hist.dbBefore.term, "canvas_term_id", t) = 0

\* the last observation of a course in the run's list
LastObservation(k) ==
    \A j \in (k + 1)..Len(loc.courses) :
        loc.courses[j].canvas_course_id # loc.courses[k].canvas_course_id

\* after the run at most one Term row holds the term, and the Offering of every
\* course last observed with the term refers to that row
TermShared ==
    (RunCompleted /\ loc.scope = "catalog") =>
        \A t \in TermsReferenced :
            /\ Cardinality({i \in 1..Len(db.term) : db.term[i].canvas_term_id = t}) <= 1
            /\ \A k \in 1..Len(loc.courses) :
                  (loc.courses[k].term_id = t /\ LastObservation(k))
                      => db.offering[FirstWhere(db.offering, "canvas_course_id",
                                                loc.courses[k].canvas_course_id)].term_id
                            = FirstWhere(db.term, "canvas_term_id", t)

\* C17 (term deduplication within a run): in one catalog run a term that
\* several observed courses reference is reconciled at most once and adds
\* at most 1 to new_count; afterwards one Term row exists for its external
\* id and the Offerings of all those courses hold the same internal term
\* reference.
C17_TermDeduplication == [](TermShared) /\ [][TermOncePerRun]_vars

\* a run on the empty ledger has created the term that its two courses
\* share once, and both offerings refer to it
C17_Witness ==
    /\ RunCompleted
    /\ hist.dbBefore.term = <<>>
    /\ Len(loc.courses) = 2
    /\ loc.courses[1].canvas_course_id # loc.courses[2].canvas_course_id
    /\ loc.courses[1].term_id = loc.courses[2].term_id
    /\ Len(db.term) = 1
    /\ result.new_count = 4
    /\ db.offering[1].term_id = 1
    /\ db.offering[2].term_id = 1

\* the section list of the run holds the external section id
SectionListed(canvas_section_id) ==
    \E k \in 1..Len(loc.sections) : loc.sections[k].canvas_section_id = canvas_section_id

\* the rows a reconciliation logged for a field
LoggedFor(op, field_name) ==
    {n \in 1..Len(op.logged) : op.logged[n].field_name = field_name}

\* a pass of the enrollment loop: an enrollment referring to a section the
\* run did not list is stored with no section; one stored with no section
\* and referring to a listed section is updated, with one row for section_id
\* from null to the section's internal id
LinkageDeferred ==
    (/\ pc = "off_enrollments"
     /\ pc' = "off_enrollments"
     /\ lastOp' # <<>>) =>
        LET e == loc.enrollments[loc.idx]
            op == lastOp'[Len(lastOp')]
            section == FirstWhere(sess'.section, "canvas_section_id", e.course_section_id)
        IN  /\ op.entity_type = "enrollment"
            /\ (e.course_section_id # NoneId /\ ~SectionListed(e.course_section_id))
                  => /\ op.after.section_id = NoneId
                     /\ sess'.enrollment[op.after.id].section_id = NoneId
            /\ (/\ e.course_section_id # NoneId
                /\ SectionListed(e.course_section_id)
                /\ op.before # <<>>
                /\ op.before[1].section_id = NoneId)
                  => /\ op.status = "updated"
                     /\ section # 0
                     /\ op.after.section_id = section
                     /\ Cardinality(LoggedFor(op, "section_id")) = 1
                     /\ \A n \in LoggedFor(op, "section_id") :
                           /\ op.logged[n].entity_type = "enrollment"
                           /\ op.logged[n].entity_canvas_id = e.canvas_enrollment_id
                           /\ op.logged[n].old_value = None
                           /\ op.logged[n].new_value = ToString(section)

\* an offering run without failures ends completed, unlisted sections or not
OfferingRunCompletes ==
    (pc = "idle" /\ loc.scope = "offering" /\ loc.run_id # 0)
        => /\ db.ingest_run[loc.run_id].status = "completed"
           /\ result.error = None

\* C18 (deferred section linkage): an observed enrollment that refers to an
\* external section id missing from the run's section list does not fail
\* the run and is stored with section_id null; when a later run lists the
\* section, the Enrollment is classified updated and exactly one change-log
\* row for section_id is appended, old_value null and new_value the
\* section's internal id.
C18_DeferredLinkage == [](OfferingRunCompletes) /\ [][LinkageDeferred]_vars

\* the first run stored the enrollment of an unlisted section with no
\* section; the second run listed the section and logged the one change
C18_Witness ==
    /\ RunCompleted
    /\ loc.run_id = 2
    /\ hist.prevInput.sections = <<>>
    /\ hist.prevInput.enrollments = <<EnrollStudent>>
    /\ hist.dbBefore.enrollment[1].section_id = NoneId
    /\ hist.dbBefore.ingest_run[1].status = "completed"
    /\ hist.input.sections = <<SectionA>>
    /\ hist.input.enrollments = <<EnrollStudent>>
    /\ db.enrollment[1].section_id = db.section[1].id
    /\ result.updated_count = 1
    /\ Len(db.change_log) = 1
    /\ db.change_log[1].field_name = "section_id"
    /\ db.change_log[1].old_value = None
    /\ db.change_log[1].new_value = "1"

\* the last observation of an enrollment in the run's list
LastEnrollmentObservation(k) ==
    \A j \in (k + 1)..Len(loc.enrollments) :
        loc.enrollments[j].canvas_enrollment_id # loc.enrollments[k].canvas_enrollment_id

ExternalIdOf(table) ==
    CASE table = "term" -> "canvas_term_id"
      [] table = "offering" -> "canvas_course_id"
      [] table = "user_enrollment" -> "canvas_enrollment_id"
      [] table = "section" -> "canvas_section_id"
      [] table = "person" -> "canvas_user_id"
      [] table = "enrollment" -> "canvas_enrollment_id"

\* the external identifiers stored in a table of T
ExternalIds(T, table) ==
    {T[table][i][ExternalIdOf(table)] : i \in 1..Len(T[table])}

\* C20 (ingestion is non-destructive): over any sequence of ingest_catalog
\* and ingest_offering runs the set of stored external identifiers of every
\* entity kind never shrinks, also when a later snapshot lacks an entity an
\* earlier one held.
C20_NonDestructive ==
    [][\A table \in EntityTables : ExternalIds(db, table) \subseteq ExternalIds(db', table)]_vars

\* a catalog run whose course list lacks CourseIntro has completed after one
\* that held it: the course's offering and the user's enrollment in it are
\* still stored, unseen by the run, and so is the seeded offering
C20_Witness ==
    /\ RunCompleted
    /\ hist.scope = "catalog"
    /\ hist.prevScope = "catalog"
    /\ hist.prevInput.courses = <<CourseIntro, CourseLab>>
    /\ hist.input.courses = <<CourseLab>>
    /\ CourseIntro.canvas_course_id \in ExternalIds(db, "offering")
    /\ CourseLab.canvas_course_id \in ExternalIds(db, "offering")
    /\ SeededCourseId \in ExternalIds(db, "offering")
    /\ \E i \in 1..Len(db.offering) :
          /\ db.offering[i].canvas_course_id = CourseIntro.canvas_course_id
          /\ db.offering[i].last_seen_at < db.ingest_run[loc.run_id].started_at
    /\ \E i \in 1..Len(db.user_enrollment) :
          db.user_enrollment[i].last_seen_at < db.ingest_run[loc.run_id].started_at

\* no two rows of a table of T hold the same external identifier
UniqueExternalIds(T) ==
    \A table \in EntityTables : \A i, j \in 1..Len(T[table]) :
        T[table][i][ExternalIdOf(table)] = T[table][j][ExternalIdOf(table)] => i = j

\* a reconciliation has worked on the record of the observed external
\* identifier: the one stored under it, if any
FoundByExternalId(op) ==
    /\ op.after[ExternalIdOf(op.entity_type)] = op.canvas_id
    /\ op.before # <<>> =>
          /\ op.before[1][ExternalIdOf(op.entity_type)] = op.canvas_id
          /\ op.before[1].id = op.after.id

\* C21 (external-identifier uniqueness): after any sequence of runs every
\* entity table holds at most one row per external identifier, also when a
\* batch observes an external identifier more than once; a reconciliation
\* finds the stored record by its external identifier only.
C21_ExternalIdUnique ==
    /\ UniqueExternalIds(db)
    /\ UniqueExternalIds(sess)
    /\ \A n \in 1..Len(lastOp) : FoundByExternalId(lastOp[n])

\* a second run whose batch observed one user and one enrollment twice has
\* completed with one Person row and one Enrollment row
C21_Witness ==
    /\ RunCompleted
    /\ loc.scope = "offering"
    /\ loc.run_id = 2
    /\ Len(loc.enrollments) = 2
    /\ loc.enrollments[1].user_id = loc.enrollments[2].user_id
    /\ loc.enrollments[1].canvas_enrollment_id = loc.enrollments[2].canvas_enrollment_id
    /\ Len(db.person) = 1
    /\ Len(db.enrollment) = 1
    /\ Len(db.offering) > 1

\* ------------------------------------------------------------ annotations
\* Declared data (cl/annotations/manager.py). Each operation opens its own
\* session, raises before writing or commits once; it is modelled as a
\* function from the committed tables to the tables it leaves and the
\* exception it raises (exc is <<>> when it returns).

\* the id SQLite gives a row added to rows: one more than the largest in use
NextRowId(rows) ==
    IF rows = <<>> THEN 1
    ELSE 1 + (CHOOSE m \in {rows[i].id : i \in 1..Len(rows)} :
                 \A i \in 1..Len(rows) : rows[i].id <= m)

\* session.delete of the row at position i
WithoutRow(rows, i) == [j \in 1..(Len(rows) - 1) |-> IF j < i THEN rows[j] ELSE rows[j + 1]]

\* select(...).where(a == x, b == y) ... .first(): position of the first
\* row matching both, 0 for None
FirstWhereBoth(rows, a, x, b, y) ==
    LET hits == {i \in 1..Len(rows) : rows[i][a] = x /\ rows[i][b] = y}
    IN  IF hits = {} THEN 0 ELSE CHOOSE i \in hits : \A j \in hits : i <= j

\* class AnnotationError and its subclasses: the class and str(e)
AnnotationError(cls, msg) == [cls |-> cls, msg |-> msg]

OfferingNotFoundError(canvas_course_id) ==
    AnnotationError("OfferingNotFoundError",
        "Offering with Canvas ID " \o ToString(canvas_course_id)
        \o " not found in local ledger. Run 'cl ingest catalog' first.")

\* the operation raised before its commit: nothing is written
Refusing(T, exc) == [T |-> T, exc |-> <<exc>>]

\* the operation committed T
Committing(T) == [T |-> T, exc |-> <<>>]

\* _validate_offering_exists: TRUE when it returns, FALSE when it raises
\* OfferingNotFoundError (the first variant looks nothing up and returns)
_validate_offering_exists_unchecked(T, offering_canvas_id) ==
    offering_canvas_id = offering_canvas_id

_validate_offering_exists(T, offering_canvas_id) ==
    FirstWhere(T.offering, "canvas_course_id", offering_canvas_id) # 0

add_lead_instructor(T, offering_canvas_id, person_canvas_id, designation, now) ==
    LET rows == T.lead_instructor_annotation
        existing == FirstWhereBoth(rows, "offering_canvas_id", offering_canvas_id,
                                   "person_canvas_id", person_canvas_id)
    IN  IF designation \notin {"lead", "grade_responsible"}
        THEN Refusing(T, [cls |-> "ValueError",
                          msg |-> "Invalid designation '" \o designation
                                  \o "'. Must be one of: ['lead', 'grade_responsible']"])
        ELSE IF ~_validate_offering_exists(T, offering_canvas_id)
        THEN Refusing(T, OfferingNotFoundError(offering_canvas_id))
        ELSE IF existing # 0
        THEN Committing([T EXCEPT !.lead_instructor_annotation[existing] =
                            [@ EXCEPT !.designation = designation, !.updated_at = now]])
        ELSE Committing([T EXCEPT !.lead_instructor_annotation =
                            Append(@, [id |-> NextRowId(rows),
                                       offering_canvas_id |-> offering_canvas_id,
                                       person_canvas_id |-> person_canvas_id,
                                       designation |-> designation,
                                       created_at |-> now, updated_at |-> now])])

add_involvement(T, offering_canvas_id, classification, now) ==
    LET rows == T.involvement_annotation
        existing == FirstWhere(rows, "offering_canvas_id", offering_canvas_id)
    IN  IF ~_validate_offering_exists(T, offering_canvas_id)
        THEN Refusing(T, OfferingNotFoundError(offering_canvas_id))
        ELSE IF existing # 0
        THEN Committing([T EXCEPT !.involvement_annotation[existing] =
                            [@ EXCEPT !.classification = classification,
                                      !.updated_at = now]])
        ELSE Committing([T EXCEPT !.involvement_annotation =
                            Append(@, [id |-> NextRowId(rows),
                                       offering_canvas_id |-> offering_canvas_id,
                                       classification |-> classification,
                                       created_at |-> now, updated_at |-> now])])

\* remove_annotation and the two functions it dispatches to
remove_annotation(T, annotation_id, annotation_type) ==
    LET lead == FirstWhere(T.lead_instructor_annotation, "id", annotation_id)
        involvement == FirstWhere(T.involvement_annotation, "id", annotation_id)
    IN  CASE annotation_type = "lead_instructor" ->
                IF lead = 0
                THEN Refusing(T, AnnotationError("AnnotationNotFoundError",
                         "Lead instructor annotation with ID " \o ToString(annotation_id)
                         \o " not found."))
                ELSE Committing([T EXCEPT !.lead_instructor_annotation = WithoutRow(@, lead)])
          [] annotation_type = "involvement" ->
                IF involvement = 0
                THEN Refusing(T, AnnotationError("AnnotationNotFoundError",
                         "Involvement annotation with ID " \o ToString(annotation_id)
                         \o " not found."))
                ELSE Committing([T EXCEPT !.involvement_annotation = WithoutRow(@, involvement)])
          [] OTHER ->
                Refusing(T, [cls |-> "ValueError",
                             msg |-> "Invalid annotation type '" \o annotation_type
                                     \o "'. Must be 'lead_instructor' or 'involvement'."])

\* the first id of offering_canvas_ids that _validate_offering_exists
\* refuses, as a sequence of at most one
FirstUnknownOffering(T, offering_canvas_ids) ==
    LET bad == {i \in 1..Len(offering_canvas_ids) :
                    ~_validate_offering_exists(T, offering_canvas_ids[i])}
    IN  IF bad = {} THEN <<>>
        ELSE <<offering_canvas_ids[CHOOSE i \in bad : \A j \in bad : i <= j]>>

\* "for canvas_id in offering_canvas_ids: session.add(CourseAliasOffering(...))"
RECURSIVE AddAssociations(_, _, _, _)
AddAssociations(rows, alias_id, offering_canvas_ids, now) ==
    IF offering_canvas_ids = <<>> THEN rows
    ELSE AddAssociations(Append(rows, [id |-> NextRowId(rows), alias_id |-> alias_id,
                                       offering_canvas_id |-> Head(offering_canvas_ids),
                                       created_at |-> now]),
                         alias_id, Tail(offering_canvas_ids), now)

\* UniqueConstraint("alias_id", "offering_canvas_id") of course_alias_offering
\* accepts the rows
UniqueAssociations(rows) ==
    \A i, j \in 1..Len(rows) :
        (rows[i].alias_id = rows[j].alias_id
         /\ rows[i].offering_canvas_id = rows[j].offering_canvas_id) => i = j

\* create_alias without the check of the name
create_alias_unchecked(T, name, offering_canvas_ids, description, now) ==
    LET unknown == FirstUnknownOffering(T, offering_canvas_ids)
        alias_id == NextRowId(T.course_alias)
        alias == [id |-> alias_id, name |-> name, description |-> description,
                  created_at |-> now, updated_at |-> now]
        associations == AddAssociations(T.course_alias_offering, alias_id,
                                        offering_canvas_ids, now)
    IN  IF unknown # <<>>
        THEN Refusing(T, OfferingNotFoundError(unknown[1]))
        ELSE IF ~UniqueAssociations(associations)
        THEN Refusing(T, [cls |-> "IntegrityError",
                          msg |-> "(sqlite3.IntegrityError) UNIQUE constraint failed: "
                                  \o "course_alias_offering.alias_id, course_alias_offering.offering_canvas_id"])
        ELSE Committing([T EXCEPT !.course_alias = Append(@, alias),
                                  !.course_alias_offering = associations])

create_alias(T, name, offering_canvas_ids, description, now) ==
    LET unknown == FirstUnknownOffering(T, offering_canvas_ids)
        alias_id == NextRowId(T.course_alias)
        alias == [id |-> alias_id, name |-> name, description |-> description,
                  created_at |-> now, updated_at |-> now]
        associations == AddAssociations(T.course_alias_offering, alias_id,
                                        offering_canvas_ids, now)
    IN  IF FirstWhere(T.course_alias, "name", name) # 0
        THEN Refusing(T, AnnotationError("AliasAlreadyExistsError", "Alias '" \o name \o "' already exists."))
        ELSE IF unknown # <<>>
        THEN Refusing(T, OfferingNotFoundError(unknown[1]))
        ELSE IF ~UniqueAssociations(associations)
        THEN Refusing(T, [cls |-> "IntegrityError",
                          msg |-> "(sqlite3.IntegrityError) UNIQUE constraint failed: "
                                  \o "course_alias_offering.alias_id, course_alias_offering.offering_canvas_id"])
        ELSE Committing([T EXCEPT !.course_alias = Append(@, alias),
                                  !.course_alias_offering = associations])

\* add_to_alias without the check of the membership and without the
\* constraint of the table
add_to_alias_unchecked(T, alias_name, offering_canvas_id, now) ==
    LET a == FirstWhere(T.course_alias, "name", alias_name)
        alias == T.course_alias[a]
    IN  IF a = 0 THEN Refusing(T, AnnotationError("AliasNotFoundError", "Alias '" \o alias_name \o "' not found."))
        ELSE IF ~_validate_offering_exists(T, offering_canvas_id)
        THEN Refusing(T, OfferingNotFoundError(offering_canvas_id))
        ELSE Committing([T EXCEPT
                !.course_alias_offering =
                    Append(@, [id |-> NextRowId(@), alias_id |-> alias.id,
                               offering_canvas_id |-> offering_canvas_id,
                               created_at |-> now]),
                !.course_alias[a].updated_at = now])

add_to_alias(T, alias_name, offering_canvas_id, now) ==
    LET a == FirstWhere(T.course_alias, "name", alias_name)
        alias == T.course_alias[a]
    IN  IF a = 0 THEN Refusing(T, AnnotationError("AliasNotFoundError", "Alias '" \o alias_name \o "' not found."))
        ELSE IF ~_validate_offering_exists(T, offering_canvas_id)
        THEN Refusing(T, OfferingNotFoundError(offering_canvas_id))
        ELSE IF FirstWhereBoth(T.course_alias_offering, "alias_id", alias.id,
                               "offering_canvas_id", offering_canvas_id) # 0
        THEN Refusing(T, AnnotationError("OfferingAlreadyInAliasError",
                 "Offering " \o ToString(offering_canvas_id) \o " is already in alias '" \o alias_name \o "'."))
        ELSE Committing([T EXCEPT
                !.course_alias_offering =
                    Append(@, [id |-> NextRowId(@), alias_id |-> alias.id,
                               offering_canvas_id |-> offering_canvas_id,
                               created_at |-> now]),
                !.course_alias[a].updated_at = now])

remove_from_alias(T, alias_name, offering_canvas_id, now) ==
    LET a == FirstWhere(T.course_alias, "name", alias_name)
        alias == T.course_alias[a]
        association == FirstWhereBoth(T.course_alias_offering, "alias_id", alias.id,
                                      "offering_canvas_id", offering_canvas_id)
    IN  IF a = 0 THEN Refusing(T, AnnotationError("AliasNotFoundError", "Alias '" \o alias_name \o "' not found."))
        ELSE IF association = 0
        THEN Refusing(T, AnnotationError("OfferingNotInAliasError",
                 "Offering " \o ToString(offering_canvas_id) \o " is not in alias '" \o alias_name \o "'."))
        ELSE Committing([T EXCEPT
                !.course_alias_offering = WithoutRow(@, association),
                !.course_alias[a].updated_at = now])

delete_alias(T, alias_name) ==
    LET a == FirstWhere(T.course_alias, "name", alias_name)
        alias == T.course_alias[a]
    IN  IF a = 0 THEN Refusing(T, AnnotationError("AliasNotFoundError", "Alias '" \o alias_name \o "' not found."))
        ELSE Committing([T EXCEPT
                !.course_alias_offering = SelectSeq(@, LAMBDA r : r.alias_id # alias.id),
                !.course_alias = WithoutRow(@, a)])

\* ---------------------------------------------------- annotation commands
\* what the commands of cl/cli/annotate_cmd.py are given
DeclaredOfferingIds == {CourseIntro.canvas_course_id, UnknownCourseId}
AliasNames == {"BET 3510", "CS 101"}
AliasOfferingLists ==
    {<<>>, <<CourseIntro.canvas_course_id>>,
     <<CourseIntro.canvas_course_id, CourseIntro.canvas_course_id>>,
     <<CourseIntro.canvas_course_id, UnknownCourseId>>}

\* one annotation command run to its end between two ingestion commands:
\* r is what the operation leaves and raises
Declare(operation, names, offering_canvas_ids, r) ==
    /\ Invocable
    /\ hist.declared < MaxDeclared
    /\ db' = r.T
    /\ result' = IF r.exc = <<>> THEN [NoResult EXCEPT !.kind = "return"]
                 ELSE Raised(r.exc[1])
    /\ loc' = [NoLoc EXCEPT !.scope = operation, !.calls = names,
                            !.courses = offering_canvas_ids]
    /\ hist' = [Remember(operation, NoInput) EXCEPT !.declared = @ + 1]
    /\ clock' = clock + 1
    /\ lastOp' = <<>>
    /\ UNCHANGED <<sess, pc>>

AddLeadInstructor ==
    \E c \in DeclaredOfferingIds, u \in {EnrollStudent.user_id}, d \in {"lead", "grade_responsible", "primary"} :
        Declare("add_lead_instructor", <<d>>, <<c>>, add_lead_instructor(db, c, u, d, clock))

AddInvolvement ==
    \E c \in DeclaredOfferingIds, k \in {"developed course", "guest lecturer"} :
        Declare("add_involvement", <<k>>, <<c>>, add_involvement(db, c, k, clock))

RemoveAnnotation ==
    \E i \in {1}, t \in {"lead_instructor", "involvement", "alias"} :
        Declare("remove_annotation", <<t>>, <<i>>, remove_annotation(db, i, t))

CreateAlias ==
    \E name \in AliasNames, ids \in AliasOfferingLists :
        Declare("create_alias", <<name>>, ids, create_alias(db, name, ids, None, clock))

AddToAlias ==
    \E name \in AliasNames, c \in DeclaredOfferingIds :
        Declare("add_to_alias", <<name>>, <<c>>, add_to_alias(db, name, c, clock))

RemoveFromAlias ==
    \E name \in AliasNames, c \in DeclaredOfferingIds :
        Declare("remove_from_alias", <<name>>, <<c>>, remove_from_alias(db, name, c, clock))

DeleteAlias ==
    \E name \in AliasNames :
        Declare("delete_alias", <<name>>, <<>>, delete_alias(db, name))

\* Annotation commands and catalog runs in any order, starting from the
\* empty ledger, nothing failing.
NextDeclared ==
    \/ CatalogStartOne
    \/ CatalogCourse
    \/ CatalogFinish
    \/ AddLeadInstructor
    \/ AddInvolvement
    \/ RemoveAnnotation
    \/ CreateAlias
    \/ AddToAlias
    \/ RemoveFromAlias
    \/ DeleteAlias

SpecDeclared == InitCatalog /\ [][NextDeclared]_vars

\* the rows named table that T holds
RowsOf(T, table) == SeqToSet(T[table])

\* ------------------------------------------------------------ C22
\* C22 (append-only change log): no ingestion run and no annotation
\* command modifies or removes a row of the change log; every row the
\* committed change log held when the current command started is still in
\* it, with the same fields, in every state since.
C22_AppendOnly == RowsOf(hist.dbBefore, "change_log") \subseteq RowsOf(db, "change_log")

\* an annotation command committed on a ledger whose change log holds rows,
\* after a run that added rows to the log
C22_Witness ==
    /\ loc.scope \in {"add_involvement", "delete_alias"}
    /\ result.kind = "return"
    /\ db.change_log # <<>>
    /\ db # hist.dbBefore
    /\ hist.prevScope = "catalog"

\* ------------------------------------------------------------ C23
\* the field value v of a record or snapshot is absent (Python None)
Absent(field_name, v) == IF field_name \in RefFields THEN v = NoneId ELSE v = None

\* str(v) of a value that is present
StringForm(field_name, v) == IF field_name \in RefFields THEN ToString(v) ELSE v

\* column value x of a change-log row serialises the field value v
Serialises(x, field_name, v) ==
    /\ x = None <=> Absent(field_name, v)
    /\ ~Absent(field_name, v) => x = StringForm(field_name, v)
    /\ x # "None"

\* C23 (null serialisation): in every change-log row a reconciliation
\* appends, old_value is null exactly when the stored field value was
\* absent and new_value is null exactly when the observed field value was
\* absent; otherwise the column holds the string form of the value, and the
\* string 'None' is never written for an absent value.
C23_NullSerialisation ==
    \A n \in 1..Len(lastOp) : \A i \in 1..Len(lastOp[n].logged) :
        LET row == lastOp[n].logged[i]
            op == lastOp[n]
        IN  /\ op.before # <<>>
            /\ Serialises(row.old_value, row.field_name, op.before[1][row.field_name])
            /\ Serialises(row.new_value, row.field_name, op.obs[row.field_name])

\* one reconciliation has logged a field that was absent and now has a
\* value, and a field that had a value and is now absent
C23_Witness ==
    /\ Len(lastOp) = 1
    /\ \E i, j \in 1..Len(lastOp[1].logged) :
          /\ lastOp[1].logged[i].old_value = None
          /\ lastOp[1].logged[i].new_value # None
          /\ lastOp[1].logged[j].old_value # None
          /\ lastOp[1].logged[j].new_value = None

\* ------------------------------------------------------------ queries
\* The read-only queries of cl/ledger/queries.py over the committed tables.

\* a stable sort of <<key, row>> pairs by ascending key: p put into the
\* sorted pairs behind every pair whose key is not larger
RECURSIVE InsertByKey(_, _)
InsertByKey(sorted, p) ==
    IF sorted = <<>> THEN <<p>>
    ELSE IF p[1] < Head(sorted)[1] THEN <<p>> \o sorted
    ELSE <<Head(sorted)>> \o InsertByKey(Tail(sorted), p)

RECURSIVE SortPairs(_, _)
SortPairs(pairs, n) ==
    IF n = 0 THEN <<>> ELSE InsertByKey(SortPairs(pairs, n - 1), pairs[n])

\* ORDER BY / list.sort: s by ascending Key, rows of equal key in the order
\* s has them
SortedBy(s, Key(_)) ==
    LET sorted == SortPairs([i \in 1..Len(s) |-> <<Key(s[i]), s[i]>>], Len(s))
    IN  [k \in 1..Len(s) |-> sorted[k][2]]

\* where an entity_type text stands in the order of the texts
EntityTypeOrder(entity_type) ==
    CASE entity_type = "enrollment" -> 1
      [] entity_type = "offering" -> 2
      [] entity_type = "person" -> 3
      [] entity_type = "section" -> 4
      [] entity_type = "term" -> 5
      [] entity_type = "user_enrollment" -> 6

\* ChangeEntry(...) of the ChangeLog rows cs, in their order
ChangeEntries(cs) ==
    [i \in 1..Len(cs) |->
        [entity_type |-> cs[i].entity_type,
         entity_canvas_id |-> cs[i].entity_canvas_id,
         field_name |-> cs[i].field_name,
         old_value |-> cs[i].old_value,
         new_value |-> cs[i].new_value,
         ingest_run_id |-> cs[i].ingest_run_id,
         observed_at |-> cs[i].observed_at]]

\* the rows of every run up to the given one
get_changes_up_to_ingest_run(T, ingest_run_id) ==
    ChangeEntries(SortedBy(
        SelectSeq(T.change_log, LAMBDA c : c.ingest_run_id <= ingest_run_id),
        LAMBDA c : EntityTypeOrder(c.entity_type) * 1000000 + c.entity_canvas_id))

get_changes_by_ingest_run(T, ingest_run_id) ==
    ChangeEntries(SortedBy(
        SelectSeq(T.change_log, LAMBDA c : c.ingest_run_id = ingest_run_id),
        LAMBDA c : EntityTypeOrder(c.entity_type) * 1000000 + c.entity_canvas_id))

\* select(ChangeLog).where(entity_type == t).where(entity_canvas_id.in_(ids))
\* .order_by(observed_at.desc())
ChangesOf(T, entity_type, ids) ==
    SortedBy(SelectSeq(T.change_log,
                       LAMBDA c : c.entity_type = entity_type /\ c.entity_canvas_id \in ids),
             LAMBDA c : 0 - c.observed_at)

\* the drift of a person, the enrollments of everybody included
get_person_drift_of_all(T, canvas_user_id) ==
    LET p == FirstWhere(T.person, "canvas_user_id", canvas_user_id)
        enrollment_ids == {T.enrollment[i].canvas_enrollment_id : i \in 1..Len(T.enrollment)}
        all_changes == ChangesOf(T, "person", {canvas_user_id})
                       \o ChangesOf(T, "enrollment", enrollment_ids)
    IN  IF p = 0 THEN <<>>
        ELSE <<[canvas_user_id |-> canvas_user_id, person_name |-> T.person[p].name,
                changes |-> SortedBy(ChangeEntries(all_changes),
                                     LAMBDA x : 0 - x.observed_at)]>>

\* get_person_drift: <<>> for None, else the PersonDriftEntry
get_person_drift(T, canvas_user_id) ==
    LET p == FirstWhere(T.person, "canvas_user_id", canvas_user_id)
        enrollment_ids == {T.enrollment[i].canvas_enrollment_id :
                              i \in {j \in 1..Len(T.enrollment) :
                                         T.enrollment[j].person_id = T.person[p].id}}
        all_changes == ChangesOf(T, "person", {canvas_user_id})
                       \o ChangesOf(T, "enrollment", enrollment_ids)
    IN  IF p = 0 THEN <<>>
        ELSE <<[canvas_user_id |-> canvas_user_id, person_name |-> T.person[p].name,
                changes |-> SortedBy(ChangeEntries(all_changes),
                                     LAMBDA x : 0 - x.observed_at)]>>

\* get_offering_drift: <<>> for None, else the OfferingDriftEntry
get_offering_drift(T, canvas_course_id) ==
    LET o == FirstWhere(T.offering, "canvas_course_id", canvas_course_id)
        section_canvas_ids == {T.section[i].canvas_section_id :
                                  i \in {j \in 1..Len(T.section) :
                                             T.section[j].offering_id = T.offering[o].id}}
        enrollment_ids == {T.enrollment[i].canvas_enrollment_id :
                              i \in {j \in 1..Len(T.enrollment) :
                                         T.enrollment[j].offering_id = T.offering[o].id}}
        all_changes == ChangesOf(T, "offering", {canvas_course_id})
                       \o ChangesOf(T, "section", section_canvas_ids)
                       \o ChangesOf(T, "enrollment", enrollment_ids)
    IN  IF o = 0 THEN <<>>
        ELSE <<[canvas_course_id |-> canvas_course_id,
                offering_name |-> T.offering[o].name,
                offering_code |-> T.offering[o].code,
                changes |-> SortedBy(ChangeEntries(all_changes),
                                     LAMBDA x : 0 - x.observed_at)]>>

\* ------------------------------------------------------------ C24
\* get_changes_by_ingest_run(r) is, entry for row, the rows of the committed
\* change log that run r owns, for every r including ids of no run
ChangesByRunExact ==
    \A r \in 0..(Len(db.ingest_run) + 1) :
        \A got \in {get_changes_by_ingest_run(db, r)} :
            LET rows == {i \in 1..Len(db.change_log) : db.change_log[i].ingest_run_id = r}
            IN  /\ Len(got) = Cardinality(rows)
                /\ SeqToSet(got) = {ChangeEntries(<<db.change_log[i]>>)[1] : i \in rows}

\* a completed run that detected no change has an empty list
NoChangeNoEntries ==
    (RunCompleted /\ loc.drift_count = 0)
        => get_changes_by_ingest_run(db, loc.run_id) = <<>>

\* C24 as stated: get_changes_by_ingest_run(r) returns exactly the
\* change-log rows whose ingest_run_id is r and nothing recorded by other
\* runs; for a run that detected no change, in particular the first run on
\* an empty ledger, it returns the empty list.
C24_ChangesByRun ==
    /\ ChangesByRunExact
    /\ NoChangeNoEntries
    /\ (RunCompleted /\ OnEmptyLedger)
          => get_changes_by_ingest_run(db, loc.run_id) = <<>>

\* C24, amended: the same, the first run on an empty ledger being given a
\* course list whose observations of one external identifier agree.
C24_ChangesByRunAgreeing ==
    /\ ChangesByRunExact
    /\ NoChangeNoEntries
    /\ (RunCompleted /\ OnEmptyLedger /\ AgreeingCourses(hist.input.courses))
          => get_changes_by_ingest_run(db, loc.run_id) = <<>>

\* two runs have completed and each owns rows of the change log, which
\* the query tells apart
C24_Witness ==
    /\ RunCompleted
    /\ loc.run_id = 2
    /\ get_changes_by_ingest_run(db, 1) # <<>>
    /\ get_changes_by_ingest_run(db, 2) # <<>>
    /\ Len(get_changes_by_ingest_run(db, 1)) + Len(get_changes_by_ingest_run(db, 2))
          = Len(db.change_log)

\* ------------------------------------------------------------ C25
\* the positions of the change-log rows of T that are about the person u:
\* the rows of type person with external id u and the rows of type
\* enrollment whose external id is that of an Enrollment of the person
PersonRows(T, u) ==
    {n \in 1..Len(T.change_log) :
        LET c == T.change_log[n]
        IN  \/ c.entity_type = "person" /\ c.entity_canvas_id = u
            \/ /\ c.entity_type = "enrollment"
               /\ \E p \in 1..Len(T.person), e \in 1..Len(T.enrollment) :
                     /\ T.person[p].canvas_user_id = u
                     /\ T.enrollment[e].person_id = T.person[p].id
                     /\ T.enrollment[e].canvas_enrollment_id = c.entity_canvas_id}

\* the same for the offering c, its Sections and its Enrollments
OfferingRows(T, c) ==
    {n \in 1..Len(T.change_log) :
        LET r == T.change_log[n]
            mine(table) ==
                \E o \in 1..Len(T.offering), x \in 1..Len(T[table]) :
                    /\ T.offering[o].canvas_course_id = c
                    /\ T[table][x].offering_id = T.offering[o].id
                    /\ T[table][x][ExternalIdOf(table)] = r.entity_canvas_id
        IN  \/ r.entity_type = "offering" /\ r.entity_canvas_id = c
            \/ r.entity_type = "section" /\ mine("section")
            \/ r.entity_type = "enrollment" /\ mine("enrollment")}

\* a drift query's answer got: None exactly when nothing is stored, else
\* its changes are, entry for row, the rows at the positions
DriftAnswers(got, stored, positions) ==
    /\ got = <<>> <=> ~stored
    /\ stored =>
          /\ Len(got[1].changes) = Cardinality(positions)
          /\ SeqToSet(got[1].changes)
                = {ChangeEntries(<<db.change_log[n]>>)[1] : n \in positions}

\* C25 (drift queries): get_person_drift(u) returns None exactly when no
\* Person with external id u is stored, and otherwise exactly the change-log
\* rows of that person and of the person's Enrollments; get_offering_drift(c)
\* returns None exactly when no Offering with external id c is stored, and
\* otherwise exactly the rows of that offering, its Sections and its
\* Enrollments.
C25_DriftQueries ==
    /\ \A u \in ExternalIds(db, "person") \cup {EnrollStudent.user_id, UnknownCourseId} :
          DriftAnswers(get_person_drift(db, u), u \in ExternalIds(db, "person"),
                       PersonRows(db, u))
    /\ \A c \in ExternalIds(db, "offering") \cup {UnknownCourseId} :
          DriftAnswers(get_offering_drift(db, c), c \in ExternalIds(db, "offering"),
                       OfferingRows(db, c))

\* two persons are stored, each with changes of the person and of the
\* enrollment, which the queries tell apart; an unknown person and an
\* unknown offering have no answer
C25_Witness ==
    /\ pc = "idle"
    /\ Len(db.person) = 2
    /\ \A p \in 1..2 :
          LET changes == get_person_drift(db, db.person[p].canvas_user_id)[1].changes
          IN  /\ \E i \in 1..Len(changes) : changes[i].entity_type = "person"
              /\ \E i \in 1..Len(changes) : changes[i].entity_type = "enrollment"
              /\ Len(changes) < Len(db.change_log)
    /\ get_person_drift(db, UnknownCourseId) = <<>>
    /\ get_offering_drift(db, UnknownCourseId) = <<>>
    /\ get_offering_drift(db, SeededCourseId)[1].changes # <<>>

\* ------------------------------------------------------------ C26
\* What a reader in another process reads is the committed database db: the
\* store shows another connection committed data only.

\* C26 as stated (reader isolation): a read made while an ingestion run is
\* in progress observes the complete database state before the run; the
\* state after the run is observed once the run has ended, and no
\* intermediate state is ever observed.
C26_ReaderIsolation == pc # "idle" => db = hist.dbBefore

\* C26, amended: a read made while an ingestion run is in progress observes
\* the database state before the run with nothing added but the run's own
\* IngestRun row in status running: no entity row, change-log row or
\* annotation row differs from the state before the run until the run ends.
C26_ReaderIsolationButRunRow ==
    pc # "idle" =>
        /\ EntitiesOf(db) = EntitiesOf(hist.dbBefore)
        /\ Len(db.ingest_run) = Len(hist.dbBefore.ingest_run) + 1
        /\ SubSeq(db.ingest_run, 1, Len(hist.dbBefore.ingest_run)) = hist.dbBefore.ingest_run
        /\ db.ingest_run[loc.run_id].status = "running"
        /\ loc.run_id = Len(db.ingest_run)

\* a run in progress has reconciled records in its session and logged
\* changes, none of which a reader can see
C26_Witness ==
    /\ pc # "idle"
    /\ Len(sess.offering) > Len(db.offering)
    /\ Len(sess.change_log) > Len(db.change_log)
    /\ lastOp # <<>>

\* ------------------------------------------------------------ C27
\* C27 (single active run): in every reachable state at most one IngestRun
\* row of the committed database has status running.
C27_SingleActiveRun ==
    Cardinality({i \in 1..Len(db.ingest_run) : db.ingest_run[i].status = "running"}) <= 1

\* ------------------------------------------------------------ C28
AnnotationTables ==
    {"lead_instructor_annotation", "involvement_annotation",
     "course_alias", "course_alias_offering"}

\* C28 (observed and declared data do not overwrite each other): while and
\* after an annotation operation, every Term, Offering, UserEnrollment,
\* Section, Person, Enrollment and change-log row is as it was when the
\* operation was invoked; while and after an ingestion run, every annotation
\* and alias row is as it was when the run was invoked, so annotations
\* survive re-ingestion of the offering they refer to.
C28_NoOverwrite ==
    /\ hist.scope \notin {"none", "catalog", "offering"} =>
          \A t \in EntityTables \cup {"change_log"} : db[t] = hist.dbBefore[t]
    /\ hist.scope \in {"catalog", "offering"} =>
          \A t \in AnnotationTables : db[t] = hist.dbBefore[t]

\* an involvement annotation and an alias of offering 101 are still there
\* after a catalog run that has changed the stored offering 101
C28_Witness ==
    /\ RunCompleted
    /\ hist.scope = "catalog"
    /\ result.updated_count > 0
    /\ db.change_log # hist.dbBefore.change_log
    /\ \/ \E i \in 1..Len(db.involvement_annotation) :
             db.involvement_annotation[i].offering_canvas_id = CourseIntro.canvas_course_id
       \/ \E i \in 1..Len(db.course_alias_offering) :
             db.course_alias_offering[i].offering_canvas_id = CourseIntro.canvas_course_id

\* ------------------------------------------------------------ C29
AliasTables == {"course_alias", "course_alias_offering"}

HasAlias(T, name) == \E i \in 1..Len(T.course_alias) : T.course_alias[i].name = name

RaisedOf(cls) == result.kind = "raise" /\ result.exc.cls = cls

\* C29 (alias names are unique): create_alias with a name that an alias
\* already has raises AliasAlreadyExistsError and leaves the aliases and
\* their memberships exactly as they were, whatever initial offerings it is
\* given; and after any sequence of alias operations no two aliases have
\* the same name.
C29_AliasNamesUnique ==
    /\ \A i, j \in 1..Len(db.course_alias) :
          db.course_alias[i].name = db.course_alias[j].name => i = j
    /\ \A name \in AliasNames, ids \in AliasOfferingLists :
          HasAlias(db, name) =>
              LET r == create_alias(db, name, ids, None, clock)
              IN  /\ r.exc # <<>>
                  /\ r.exc[1].cls = "AliasAlreadyExistsError"
                  /\ \A t \in AliasTables : r.T[t] = db[t]
    /\ (loc.scope = "create_alias" /\ HasAlias(hist.dbBefore, loc.calls[1])) =>
          /\ RaisedOf("AliasAlreadyExistsError")
          /\ \A t \in AliasTables : db[t] = hist.dbBefore[t]

\* create_alias of the name of an alias that has a member has been refused
C29_Witness ==
    /\ loc.scope = "create_alias"
    /\ HasAlias(hist.dbBefore, loc.calls[1])
    /\ RaisedOf("AliasAlreadyExistsError")
    /\ Len(db.course_alias) = 1
    /\ db.course_alias_offering # <<>>

\* ------------------------------------------------------------ C30
IsMember(T, name, offering_canvas_id) ==
    \E i \in 1..Len(T.course_alias), j \in 1..Len(T.course_alias_offering) :
        /\ T.course_alias[i].name = name
        /\ T.course_alias_offering[j].alias_id = T.course_alias[i].id
        /\ T.course_alias_offering[j].offering_canvas_id = offering_canvas_id

\* C30 (an offering is in an alias at most once): after any sequence of
\* create_alias (repeated initial ids included), add_to_alias and
\* remove_from_alias no alias has two membership rows of one offering; and
\* add_to_alias of an offering that is in the alias raises
\* OfferingAlreadyInAliasError and changes nothing.
C30_MemberAtMostOnce ==
    /\ \A i, j \in 1..Len(db.course_alias_offering) :
          (/\ db.course_alias_offering[i].alias_id = db.course_alias_offering[j].alias_id
           /\ db.course_alias_offering[i].offering_canvas_id
                  = db.course_alias_offering[j].offering_canvas_id) => i = j
    /\ \A name \in AliasNames, c \in DeclaredOfferingIds :
          IsMember(db, name, c) =>
              LET r == add_to_alias(db, name, c, clock)
              IN  /\ r.exc # <<>>
                  /\ r.exc[1].cls = "OfferingAlreadyInAliasError"
                  /\ r.T = db
    /\ (loc.scope = "add_to_alias" /\ IsMember(hist.dbBefore, loc.calls[1], loc.courses[1])) =>
          /\ RaisedOf("OfferingAlreadyInAliasError")
          /\ db = hist.dbBefore
    /\ (loc.scope = "create_alias" /\ RaisedOf("IntegrityError")) => db = hist.dbBefore

\* add_to_alias of an offering that is a member of the alias has been refused
C30_Witness ==
    /\ loc.scope = "add_to_alias"
    /\ IsMember(hist.dbBefore, loc.calls[1], loc.courses[1])
    /\ RaisedOf("OfferingAlreadyInAliasError")
    /\ Len(db.course_alias) = 1
    /\ Len(db.course_alias_offering) = 1

\* create_alias with a repeated initial id has been given and refused
C30_RepeatedIdsRefused ==
    /\ loc.scope = "create_alias"
    /\ Len(loc.courses) = 2 /\ loc.courses[1] = loc.courses[2]
    /\ RaisedOf("IntegrityError")

\* ------------------------------------------------------------ C31
StoredOffering(T, c) ==
    \E i \in 1..Len(T.offering) : T.offering[i].canvas_course_id = c

\* the command that ran last referred to an offering the ledger did not hold
ReferredToUnknownOffering ==
    /\ loc.scope \in {"add_lead_instructor", "add_involvement", "create_alias", "add_to_alias"}
    /\ \E k \in 1..Len(loc.courses) :
          ~StoredOffering(hist.dbBefore, loc.courses[k])

\* the checks the four operations make before they look the offering up
RefusedBeforeTheOffering ==
    \/ loc.scope = "add_lead_instructor" /\ loc.calls[1] \notin {"lead", "grade_responsible"}
    \/ loc.scope = "create_alias" /\ HasAlias(hist.dbBefore, loc.calls[1])
    \/ loc.scope = "add_to_alias" /\ ~HasAlias(hist.dbBefore, loc.calls[1])

DeclaredUnchanged == \A t \in AnnotationTables : db[t] = hist.dbBefore[t]

\* C31 as stated (declared data refer to known offerings only): each of
\* add_lead_instructor, add_involvement, create_alias and add_to_alias raises
\* OfferingNotFoundError when a referenced course id has no stored Offering,
\* and then no annotation, alias or membership row is created or changed.
C31_UnknownOfferingRefused ==
    ReferredToUnknownOffering =>
        RaisedOf("OfferingNotFoundError") /\ DeclaredUnchanged

\* C31 amended: when a referenced course id has no stored Offering the
\* operation raises and no annotation, alias or membership row is created
\* or changed; the error is OfferingNotFoundError unless the designation is
\* invalid, the name of the new alias is taken, or the alias is not found,
\* which are reported first.
C31_UnknownOfferingRefusedInOrder ==
    ReferredToUnknownOffering =>
        /\ result.kind = "raise"
        /\ ~RefusedBeforeTheOffering => RaisedOf("OfferingNotFoundError")
        /\ DeclaredUnchanged

\* create_alias with a known and an unknown id has been refused next to an
\* alias made before, and has made no alias
C31_Witness ==
    /\ loc.scope = "create_alias"
    /\ loc.courses = <<CourseIntro.canvas_course_id, UnknownCourseId>>
    /\ StoredOffering(hist.dbBefore, CourseIntro.canvas_course_id)
    /\ RaisedOf("OfferingNotFoundError")
    /\ Len(hist.dbBefore.course_alias) = 1
    /\ Len(db.course_alias) = 1

\* ------------------------------------------------------------ C32
\* the record a reconciliation leaves holds the observed value in every
\* tracked field
ReflectsObservation(op) ==
    \A f \in ListedFields(op.entity_type) : op.after[f] = op.obs[f]

\* the last observation of an external id among the ids a list observes
LastOf(ids, k) == \A j \in (k + 1)..Len(ids) : ids[j] # ids[k]

\* the stored row of a table with the external id, held in the tracked
\* fields to the values obs
StoredAs(table, cid, fields, obs) ==
    LET i == FirstWhere(db[table], ExternalIdOf(table), cid)
    IN  /\ i # 0
        /\ \A f \in fields : db[table][i][f] = obs[f]

\* the user's enrollments a course list observes, in the order of the list
RECURSIVE EnrollmentsListed(_)
EnrollmentsListed(courses) ==
    IF courses = <<>> THEN <<>>
    ELSE courses[1].enrollments \o EnrollmentsListed(Tail(courses))

\* after a catalog run: the Offering of every course as last listed, with
\* the Term row of the term the client answered for it; that Term as
\* answered; every UserEnrollment as last listed
CatalogStoredAsObserved ==
    LET listed == EnrollmentsListed(loc.courses)
    IN  /\ \A k \in 1..Len(loc.courses) :
              LET c == loc.courses[k]
                  o == FirstWhere(db.offering, "canvas_course_id", c.canvas_course_id)
              IN  /\ LastObservation(k) =>
                        /\ StoredAs("offering", c.canvas_course_id,
                                    {"name", "code", "workflow_state"}, c)
                        /\ IF c.term_id = NoneId \/ c.term = <<>>
                           THEN db.offering[o].term_id = NoneId
                           ELSE /\ db.offering[o].term_id \in 1..Len(db.term)
                                /\ db.term[db.offering[o].term_id].canvas_term_id = c.term_id
                  /\ (c.term_id # NoneId /\ c.term # <<>>) =>
                        StoredAs("term", c.term_id, ListedFields("term"), c.term[1])
        /\ \A k \in 1..Len(listed) :
              LastOf([j \in 1..Len(listed) |-> listed[j].canvas_enrollment_id], k) =>
                  StoredAs("user_enrollment", listed[k].canvas_enrollment_id,
                           ListedFields("user_enrollment"), listed[k])

\* after an offering run: every Section as last listed, every Person and
\* every Enrollment as last listed, the Enrollment with the Section row of
\* the listed section
OfferingStoredAsObserved ==
    /\ \A k \in 1..Len(loc.sections) :
          LastOf([j \in 1..Len(loc.sections) |-> loc.sections[j].canvas_section_id], k) =>
              StoredAs("section", loc.sections[k].canvas_section_id,
                       ListedFields("section"), loc.sections[k])
    /\ \A k \in 1..Len(loc.enrollments) :
          LET e == loc.enrollments[k]
          IN  /\ LastOf([j \in 1..Len(loc.enrollments) |-> loc.enrollments[j].user_id], k) =>
                    StoredAs("person", e.user_id, ListedFields("person"),
                             [name |-> e.user_name, sortable_name |-> e.user_sortable_name,
                              sis_user_id |-> e.user_sis_id, login_id |-> e.user_login_id])
              /\ LastEnrollmentObservation(k) =>
                    StoredAs("enrollment", e.canvas_enrollment_id, ListedFields("enrollment"),
                             [role |-> e.role, enrollment_state |-> e.enrollment_state,
                              current_grade |-> e.current_grade,
                              current_score |-> e.current_score,
                              final_grade |-> e.final_grade, final_score |-> e.final_score,
                              section_id |-> IF SectionListed(e.course_section_id)
                                             THEN FirstWhere(db.section, "canvas_section_id",
                                                             e.course_section_id)
                                             ELSE NoneId])

\* C32 (the stored record reflects the observation): after any
\* reconciliation of an entity, new, updated or unchanged, every tracked
\* field of the stored record equals the field of the observed snapshot; so
\* after a completed run the stored tracked fields of every observed entity
\* equal the last observation of that entity in the batch.
C32_StoredReflectsObserved ==
    /\ \A n \in 1..Len(lastOp) : ReflectsObservation(lastOp[n])
    /\ (RunCompleted /\ loc.scope = "catalog") => CatalogStoredAsObserved
    /\ (RunCompleted /\ loc.scope = "offering") => OfferingStoredAsObserved

\* ------------------------------------------------------------ C33
\* the tracked fields in which the observation differs from the record found
Differing(op) ==
    {f \in ListedFields(op.entity_type) : op.before[1][f] # op.obs[f]}

\* C33 (status classification): a reconciliation of an existing entity
\* returns 'updated' if and only if at least one tracked field differed
\* from the stored value and 'unchanged' otherwise; an 'unchanged'
\* reconciliation modifies no field of the record other than last_seen_at,
\* modifies no other row, and appends no change-log row.
C33_StatusClassification ==
    \A n \in 1..Len(lastOp) :
        LET op == lastOp[n]
        IN  op.before # <<>> =>
                /\ op.status \in {"updated", "unchanged"}
                /\ op.status = "updated" <=> Differing(op) # {}
                /\ op.status = "unchanged" =>
                      /\ op.after = [op.before[1] EXCEPT !.last_seen_at = op.after.last_seen_at]
                      /\ op.logged = <<>>
                      /\ pc = "reconciled" =>
                            sess = [db EXCEPT ![op.entity_type][op.after.id] = op.after]

\* an enrollment observed with the seven stored values of its tracked fields
\* has been reconciled as 'unchanged' and seen at the time of the run
C33_Witness ==
    /\ pc = "reconciled"
    /\ lastOp[1].entity_type = "enrollment"
    /\ lastOp[1].before # <<>>
    /\ lastOp[1].status = "unchanged"
    /\ lastOp[1].after.last_seen_at > lastOp[1].before[1].last_seen_at
    /\ lastOp[1].after.section_id # NoneId
    /\ lastOp[1].after.final_score # None

\* ------------------------------------------------------------ C34
\* the internal references: table, field, table referred to, nullable
References ==
    {<<"offering", "term_id", "term", TRUE>>,
     <<"user_enrollment", "offering_id", "offering", FALSE>>,
     <<"section", "offering_id", "offering", FALSE>>,
     <<"enrollment", "offering_id", "offering", FALSE>>,
     <<"enrollment", "section_id", "section", TRUE>>,
     <<"enrollment", "person_id", "person", FALSE>>}

\* every reference stored in the tables T is null where that is allowed or
\* the internal id of a row of T
Resolved(T) ==
    \A ref \in References :
        \A i \in 1..Len(T[ref[1]]) :
            LET v == T[ref[1]][i][ref[2]]
            IN  \/ ref[4] /\ v = NoneId
                \/ /\ v \in 1..Len(T[ref[3]])
                   /\ T[ref[3]][v].id = v

\* the record a reconciliation left refers only to rows the session held
\* before the reconciliation
RefersToFlushed(op) ==
    \A ref \in References :
        ref[1] = op.entity_type =>
            \/ ref[4] /\ op.after[ref[2]] = NoneId
            \/ op.after[ref[2]] \in 1..op.held[ref[3]]

\* C34 (referential integrity under the ordering rule): in every state
\* during or after a run every stored internal reference, in the session
\* and in the committed database, is null where allowed or the internal id
\* of a row that exists; and no dependent is written with a reference to a
\* row that was not flushed before it.
C34_ReferentialIntegrity ==
    /\ Resolved(db)
    /\ Resolved(sess)
    /\ \A n \in 1..Len(lastOp) : RefersToFlushed(lastOp[n])

\* in a run not yet committed, a new Enrollment refers to the Section and
\* the Person the run itself has created and flushed
C34_Witness ==
    /\ pc # "idle"
    /\ Len(sess.enrollment) > Len(db.enrollment)
    /\ Len(sess.person) > Len(db.person)
    /\ Len(sess.section) > Len(db.section)
    /\ sess.enrollment[Len(sess.enrollment)].person_id = Len(sess.person)
    /\ sess.enrollment[Len(sess.enrollment)].section_id = Len(sess.section)
    /\ lastOp # <<>>

\* ------------------------------------------------------------ C35
\* the invocation has ended because its first client call, list_my_courses
\* or list_sections, raised
InitialFetchFailed ==
    /\ RunEnded
    /\ loc.caught # <<>>
    /\ loc.idx = 0
    /\ loc.calls \in {<<"list_my_courses">>, <<"list_sections">>}

\* C35 (a failed initial fetch changes no entity data): when
\* list_my_courses fails in ingest_catalog or list_sections fails in
\* ingest_offering, the only persisted effect of the invocation is one
\* IngestRun row with status failed; no entity row and no change-log row is
\* created or modified.
C35_InitialFetchFailure ==
    InitialFetchFailed =>
        /\ Len(db.ingest_run) = Len(hist.dbBefore.ingest_run) + 1
        /\ loc.run_id = Len(db.ingest_run)
        /\ db.ingest_run[loc.run_id].status = "failed"
        /\ db = [hist.dbBefore EXCEPT
                    !.ingest_run = Append(@, db.ingest_run[loc.run_id])]

\* list_sections has failed for the offering of a ledger that holds a term
\* and an offering, and the run is stored as failed with the message
C35_Witness ==
    /\ InitialFetchFailed
    /\ loc.scope = "offering"
    /\ Caught(NotFoundError(SeededCourseId))
    /\ hist.dbBefore.offering # <<>>
    /\ hist.dbBefore.term # <<>>
    /\ db.ingest_run[loc.run_id].error_message = NotFoundError(SeededCourseId).msg

\* list_my_courses has failed the authentication on the empty ledger
C35_CatalogFetchFailed ==
    /\ InitialFetchFailed
    /\ loc.scope = "catalog"
    /\ Caught(AuthError)
    /\ db.ingest_run[loc.run_id].status = "failed"

\* ------------------------------------------------------------ C36
\* the run has ended failed with a recognised client error
FailedOnClientError ==
    /\ RunEnded
    /\ loc.caught # <<>>
    /\ loc.caught[1].cls \in ExpectedFailures
    /\ db.ingest_run[loc.run_id].status = "failed"

\* the result of the failed run and its stored record: the run's id, zero
\* counters, no drift, the stored error message
FailedResultReported ==
    /\ result.kind = "return"
    /\ result.run_id = loc.run_id
    /\ result.new_count = 0 /\ result.updated_count = 0 /\ result.unchanged_count = 0
    /\ result.drift_detected = <<>>
    /\ result.error = db.ingest_run[loc.run_id].error_message
    /\ db.ingest_run[loc.run_id].new_count = 0
    /\ db.ingest_run[loc.run_id].updated_count = 0
    /\ db.ingest_run[loc.run_id].unchanged_count = 0
    /\ db.ingest_run[loc.run_id].drift_count = 0

\* the run created or updated no entity row and owns no change-log row
NothingOfTheRunStored ==
    /\ \A t \in EntityTables : db[t] = hist.dbBefore[t]
    /\ DriftRowsOf(db, loc.run_id) = {}

\* C36 (the result of a failed run matches what was persisted): when a run
\* ends failed with a recognised client error, the returned IngestResult
\* has the failed run's id, zero counters, an empty drift list and the
\* stored error message, the stored counters are 0, and these zeros agree
\* with the database: the run created or updated no entity row and owns no
\* change-log row.
C36_FailedResultMatches ==
    FailedOnClientError => FailedResultReported /\ NothingOfTheRunStored

\* the part of C36 about the result and the run record alone
C36_FailedResultZeros ==
    FailedOnClientError => FailedResultReported

\* ------------------------------------------------------------ C37
\* the change-log rows of T appended after row i for the same entity and field
LaterOfField(T, i) ==
    {j \in (i + 1)..Len(T.change_log) :
        /\ T.change_log[j].entity_type = T.change_log[i].entity_type
        /\ T.change_log[j].entity_canvas_id = T.change_log[i].entity_canvas_id
        /\ T.change_log[j].field_name = T.change_log[i].field_name}

\* row i of the change log of T is continued by the next row of its entity
\* and field, or, being the last, tells the value the entity holds
Continued(T, i) ==
    LET row == T.change_log[i]
        later == LaterOfField(T, i)
        next == CHOOSE j \in later : \A k \in later : j <= k
        e == FirstWhere(T[row.entity_type], ExternalIdOf(row.entity_type),
                        row.entity_canvas_id)
    IN  IF later # {}
        THEN T.change_log[next].old_value = row.new_value
        ELSE /\ e # 0
             /\ row.new_value = Stringified(row.field_name,
                                            T[row.entity_type][e][row.field_name])

ConsistentHistory(T) == \A i \in 1..Len(T.change_log) : Continued(T, i)

\* C37 (the change log is a consistent history of the stored state): for
\* every entity and tracked field, in the order of appending, each
\* change-log row's old_value equals the previous row's new_value and the
\* last row's new_value equals the string form, or null, of the value now
\* stored in the field; in the session and in the committed database.
C37_ConsistentHistory == ConsistentHistory(db) /\ ConsistentHistory(sess)

\* the same with the rows of the fields left out that hold a term's dates
C37_ConsistentHistoryButDates ==
    \A T \in {db, sess} :
        \A i \in 1..Len(T.change_log) :
            T.change_log[i].field_name \notin {"start_date", "end_date"} => Continued(T, i)

\* ------------------------------------------------------------ C38
\* the internal links of a kind that are not tracked fields
LinkFields(entity_type) ==
    CASE entity_type \in {"user_enrollment", "section"} -> {"offering_id"}
      [] entity_type = "enrollment" -> {"offering_id", "person_id"}
      [] OTHER -> {}

\* C38 (links that are not tracked fields are fixed at creation): no
\* reconciliation of an existing record changes its internal or external
\* identifier, a Section's or UserEnrollment's offering_id, or an
\* Enrollment's offering_id or person_id, whatever offering or person the
\* observation comes with; such a difference appends no change-log row and
\* does not make the status 'updated'.
C38_LinksFixed ==
    \A n \in 1..Len(lastOp) :
        LET op == lastOp[n]
        IN  op.before # <<>> =>
                /\ op.after.id = op.before[1].id
                /\ op.after[ExternalIdOf(op.entity_type)]
                       = op.before[1][ExternalIdOf(op.entity_type)]
                /\ \A f \in LinkFields(op.entity_type) : op.after[f] = op.before[1][f]
                /\ \A i \in 1..Len(op.logged) :
                       op.logged[i].field_name \in ListedFields(op.entity_type)
                /\ Differing(op) = {} => op.status = "unchanged" /\ op.logged = <<>>

\* a stored enrollment has been observed with its stored values in another
\* offering and of another person, and is 'unchanged' where it was
C38_Witness ==
    /\ pc = "reconciled"
    /\ lastOp[1].entity_type = "enrollment"
    /\ lastOp[1].before # <<>>
    /\ lastOp[1].obs.offering_id # lastOp[1].before[1].offering_id
    /\ lastOp[1].obs.person_id # lastOp[1].before[1].person_id
    /\ lastOp[1].status = "unchanged"
    /\ lastOp[1].after.person_id = lastOp[1].before[1].person_id

\* a stored section has been observed in another offering with another name
C38_SectionObservedElsewhere ==
    /\ pc = "reconciled"
    /\ lastOp[1].entity_type = "section"
    /\ lastOp[1].before # <<>>
    /\ lastOp[1].obs.offering_id # lastOp[1].before[1].offering_id
    /\ lastOp[1].status = "updated"

\* ------------------------------------------------------------ C39
\* the reconciliation found a record that the running run had already
\* written: its external identifier was observed before in the run
RepeatedInRun(op) ==
    /\ op.before # <<>>
    /\ op.before[1].last_seen_at >= sess.ingest_run[loc.run_id].started_at

\* the rows the tables T hold more than the tables T0
RowsAdded(T, T0) ==
    Len(T.term) + Len(T.offering) + Len(T.user_enrollment)
        + Len(T.section) + Len(T.person) + Len(T.enrollment)
    - (Len(T0.term) + Len(T0.offering) + Len(T0.user_enrollment)
        + Len(T0.section) + Len(T0.person) + Len(T0.enrollment))

\* C39 (repeated observation inside one run): when an external identifier
\* is observed again in a run, the reconciliation works on the record the
\* first observation left, so it is not classified 'new' again and the
\* differences between the observations are logged as changes owned by the
\* run; a completed run has counted as new exactly the rows it added, one
\* per external identifier.
C39_RepeatedObservation ==
    /\ pc # "idle" =>
          \A n \in 1..Len(lastOp) :
              LET op == lastOp[n]
              IN  RepeatedInRun(op) =>
                      /\ op.status \in {"updated", "unchanged"}
                      /\ op.before[1].id = op.after.id
                      /\ DiffLogged(op)
                      /\ \A i \in 1..Len(op.logged) :
                            op.logged[i].ingest_run_id = loc.run_id
    /\ RunCompleted =>
          /\ result.new_count = RowsAdded(db, hist.dbBefore)
          /\ UniqueExternalIds(db)

\* in one run a person new to the ledger is observed with a second
\* enrollment and other values: the Person of the first observation is
\* updated, with rows of the run, and the second Enrollment is new
C39_Witness ==
    /\ pc = "off_enrollments"
    /\ Len(lastOp) = 2
    /\ lastOp[1].entity_type = "person"
    /\ RepeatedInRun(lastOp[1])
    /\ lastOp[1].status = "updated"
    /\ lastOp[1].logged # <<>>
    /\ lastOp[2].entity_type = "enrollment"
    /\ lastOp[2].status = "new"
    /\ FirstWhere(hist.dbBefore.person, "canvas_user_id", lastOp[1].canvas_id) = 0
    /\ Len(sess.person) = Len(hist.dbBefore.person) + 1

\* in one catalog run a course is listed twice with other values
C39_CourseListedTwice ==
    /\ pc = "cat_loop"
    /\ \E n \in 1..Len(lastOp) :
          /\ lastOp[n].entity_type = "offering"
          /\ RepeatedInRun(lastOp[n])
          /\ lastOp[n].status = "updated"


====
